----------------------------- MODULE WaitQueue -----------------------------
(***************************************************************************)
(* sleep_on and wake_up of kernel/sched.c on one wait queue.               *)
(*                                                                         *)
(* The queue is a single pointer *p to the task that went to sleep last.   *)
(* Each sleeper remembers the one before it in the local variable tmp of   *)
(* its own sleep_on frame, so the list lives on the kernel stacks of the   *)
(* sleeping tasks.  wake_up makes the head runnable and empties *p; each   *)
(* task that resumes makes its tmp runnable in turn.                       *)
(*                                                                         *)
(* The kernel is not preempted between two calls of schedule(), so the     *)
(* code of sleep_on before schedule() and the code after it are one action *)
(* each.  wake_up is also called from interrupt handlers.                  *)
(***************************************************************************)
CONSTANTS Task,  \* the tasks that use the queue
          NULL   \* the null pointer

VARIABLES p,         \* the queue: the last task that went to sleep, or NULL
          tmp,       \* the local variable of each task's sleep_on frame
          state,     \* task_struct.state
          pc,        \* "out", or "in" while the task is inside sleep_on
          released   \* history: tasks in sleep_on that a wake_up has covered

vars == <<p, tmp, state, pc, released>>

RUNNING == "TASK_RUNNING"
UNINTERRUPTIBLE == "TASK_UNINTERRUPTIBLE"

Inside == {t \in Task : pc[t] = "in"}

Init ==
    /\ p = NULL
    /\ tmp = [t \in Task |-> NULL]
    /\ state = [t \in Task |-> RUNNING]
    /\ pc = [t \in Task |-> "out"]
    /\ released = {}

\* sleep_on up to and including its call of schedule().
SleepOn(t) ==
    /\ pc[t] = "out"
    /\ tmp' = [tmp EXCEPT ![t] = p]
    /\ p' = t
    /\ state' = [state EXCEPT ![t] = UNINTERRUPTIBLE]
    /\ pc' = [pc EXCEPT ![t] = "in"]
    /\ UNCHANGED released

\* Mutant: the wake-up is not passed on.
ResumeWithoutChain(t) ==
    /\ pc[t] = "in"
    /\ state[t] = RUNNING
    /\ UNCHANGED <<state, p>>
    /\ tmp' = [tmp EXCEPT ![t] = NULL]
    /\ pc' = [pc EXCEPT ![t] = "out"]
    /\ released' = released \ {t}

\* sleep_on after schedule(): the frame, and with it tmp, is gone on return.
Resume(t) ==
    /\ pc[t] = "in"
    /\ state[t] = RUNNING
    /\ state' = IF tmp[t] # NULL
                THEN [state EXCEPT ![tmp[t]] = RUNNING]
                ELSE state
    /\ tmp' = [tmp EXCEPT ![t] = NULL]
    /\ pc' = [pc EXCEPT ![t] = "out"]
    /\ released' = released \ {t}
    /\ UNCHANGED p

\* wake_up(&p).
WakeUp ==
    /\ p # NULL
    /\ state' = [state EXCEPT ![p] = RUNNING]
    /\ p' = NULL
    /\ released' = Inside
    /\ UNCHANGED <<tmp, pc>>

Next == WakeUp \/ \E t \in Task : SleepOn(t) \/ Resume(t)

\* schedule() runs every runnable task sooner or later (see Scheduler), so a
\* runnable task inside sleep_on resumes.  Nothing is promised of wake_up.
Fairness == \A t \in Task : WF_vars(Resume(t))

Spec == Init /\ [][Next]_vars /\ Fairness
-----------------------------------------------------------------------------
TypeOK ==
    /\ p \in Task \cup {NULL}
    /\ tmp \in [Task -> Task \cup {NULL}]
    /\ state \in [Task -> {RUNNING, UNINTERRUPTIBLE}]
    /\ pc \in [Task -> {"out", "in"}]
    /\ released \subseteq Task

\* No spurious return: a task leaves sleep_on only if some wake_up on the
\* queue came after it went to sleep (sched.c:162, the only way back from
\* schedule() is a state of TASK_RUNNING).
NoSpuriousReturn ==
    \A t \in Inside : state[t] = RUNNING => t \in released

\* No sleeper is orphaned: a task asleep in sleep_on is the head of the queue
\* or is held in the tmp of exactly one other task inside sleep_on, which was
\* released if and only if it was.  The list on the kernel stacks never loses
\* a sleeper, whatever the order of sleeps, wake-ups and returns.
NoOrphan ==
    \A t \in Inside : state[t] = UNINTERRUPTIBLE =>
        \/ p = t /\ \A u \in Inside : tmp[u] # t
        \/ /\ p # t
           /\ \E u \in Inside : /\ tmp[u] = t
                                /\ u \in released <=> t \in released
                                /\ \A v \in Inside : tmp[v] = t => v = u

\* Tasks leave strictly from the head of the queue: the tmp of a frame is a
\* task that is still asleep, so nobody returns before the sleeper in front of
\* it has (the claim of OS/docs/05_procese_exp.md:389).
StrictlyFromHead ==
    \A t \in Inside : tmp[t] # NULL => /\ pc[tmp[t]] = "in"
                                       /\ state[tmp[t]] = UNINTERRUPTIBLE

\* The wait set that the queue's users rely on.
Abstract == INSTANCE WaitSet WITH waiting <- Inside \ released

\* sleep_on and wake_up implement WaitSet, its liveness included: a wake_up
\* releases exactly the tasks asleep at that moment.
ImplementsWaitSet == Abstract!Spec

\* The part of ImplementsWaitSet without fairness.
StepsAsWaitSet == Abstract!Init /\ [][Abstract!Next]_(Abstract!vars)
=============================================================================
