----------------------------- MODULE Scheduler -----------------------------
(***************************************************************************)
(* The scheduler of kernel/sched.c: schedule(), the timer interrupt, and   *)
(* the return path of system calls in kernel/system_call.s, for the idle   *)
(* task 0 and a fixed set of other tasks.                                  *)
(*                                                                         *)
(* A task runs in user mode until a timer tick uses up its counter, and in *)
(* the kernel until it sleeps or leaves the system call: the kernel is not *)
(* preempted (do_timer returns when CPL is 0).  Alarms are kept as the     *)
(* number of ticks left; -1 stands for every time already past.            *)
(***************************************************************************)
EXTENDS Integers

CONSTANTS NR,           \* tasks are 1..NR, task 0 is the idle task
          Priority,     \* the priority and counter a task starts with
          MaxPriority,  \* bound on what sys_nice may reach
          MaxAlarm,     \* longest alarm, in ticks
          Alarmed,      \* the tasks that set alarms
          Niced         \* the tasks that change their priority

Tasks == 1..NR

RUNNING == "TASK_RUNNING"
INTERRUPTIBLE == "TASK_INTERRUPTIBLE"
UNINTERRUPTIBLE == "TASK_UNINTERRUPTIBLE"

NoAlarm == -2

VARIABLES current,   \* the task on the CPU
          state,     \* task_struct.state
          counter,   \* task_struct.counter, time slice and dynamic priority
          priority,  \* task_struct.priority
          mode,      \* "user", "kernel", or "ret" at ret_from_sys_call
          signal,    \* tasks with a pending signal that is not blocked
          alarm      \* task_struct.alarm, relative to jiffies

vars == <<current, state, counter, priority, mode, signal, alarm>>

Init ==
    /\ current = 0
    /\ state = [t \in Tasks |-> RUNNING]
    /\ counter = [t \in 0..NR |-> Priority]
    /\ priority = [t \in Tasks |-> Priority]
    /\ mode = [t \in Tasks |-> "user"]
    /\ signal = {}
    /\ alarm = [t \in Tasks |-> NoAlarm]
-----------------------------------------------------------------------------
Expired(al) == {t \in Tasks : al[t] = -1}

\* counter = (counter >> 1) + priority for every task but task 0.
Recharge(ct) ==
    [t \in 0..NR |-> IF t = 0 THEN ct[0] ELSE (ct[t] \div 2) + priority[t]]

\* Mutant: the scan keeps the last runnable task, whatever its counter.
BestByIndex(run, ct) ==
    IF run = {} THEN {0} ELSE {t \in run : \A u \in run : u <= t}

\* The task the scan picks: the largest counter, the last slot among equals;
\* task 0 when nobody can run.
Best(run, ct) ==
    IF run = {} THEN {0}
    ELSE {t \in run : \A u \in run : \/ ct[u] < ct[t]
                                     \/ ct[u] = ct[t] /\ u <= t}

\* Mutant: pending signals do not end an interruptible sleep.
ScheduleIgnoringSignals(st, ct, al) ==
    LET sig == signal \cup Expired(al)
        run == {t \in Tasks : st[t] = RUNNING}
        ct2 == IF run # {} /\ \A t \in run : ct[t] = 0 THEN Recharge(ct) ELSE ct
    IN  /\ state' = st
        /\ counter' = ct2
        /\ signal' = sig
        /\ alarm' = [t \in Tasks |-> IF al[t] = -1 THEN NoAlarm ELSE al[t]]
        /\ current' \in Best(run, ct2)

\* schedule() in task states st, with counters ct and alarms al: post SIGALRM
\* for expired alarms, wake signalled tasks, recharge the counters when every
\* runnable task has used up its own, and switch.
Schedule(st, ct, al) ==
    LET sig == signal \cup Expired(al)
        st2 == [t \in Tasks |-> IF t \in sig /\ st[t] = INTERRUPTIBLE
                                THEN RUNNING ELSE st[t]]
        run == {t \in Tasks : st2[t] = RUNNING}
        ct2 == IF run # {} /\ \A t \in run : ct[t] = 0 THEN Recharge(ct) ELSE ct
    IN  /\ state' = st2
        /\ counter' = ct2
        /\ signal' = sig
        /\ alarm' = [t \in Tasks |-> IF al[t] = -1 THEN NoAlarm ELSE al[t]]
        /\ current' \in Best(run, ct2)
-----------------------------------------------------------------------------
\* timer_interrupt and do_timer.  In user mode the task goes on through
\* ret_from_sys_call, where it takes its signals.
Tick ==
    LET al == [t \in Tasks |-> IF alarm[t] >= 0 THEN alarm[t] - 1 ELSE alarm[t]]
        left == IF counter[current] > 0 THEN counter[current] - 1 ELSE 0
        ct == [counter EXCEPT ![current] = left]
        kernel == current # 0 /\ mode[current] # "user"
    IN  /\ UNCHANGED priority
        /\ mode' = IF current = 0 \/ kernel
                   THEN mode ELSE [mode EXCEPT ![current] = "ret"]
        /\ IF left > 0 \/ kernel
           THEN counter' = ct /\ alarm' = al /\ UNCHANGED <<current, state, signal>>
           ELSE Schedule(state, ct, al)

\* The idle task calls sys_pause for ever (init/main.c).
IdlePause ==
    /\ current = 0
    /\ Schedule(state, counter, alarm)
    /\ UNCHANGED <<priority, mode>>

EnterKernel(t) ==
    /\ current = t /\ mode[t] = "user"
    /\ mode' = [mode EXCEPT ![t] = "kernel"]
    /\ UNCHANGED <<current, state, counter, priority, signal, alarm>>

\* sys_pause, sleep_on and interruptible_sleep_on: sleep in the kernel.
Sleep(t, how) ==
    /\ current = t /\ mode[t] = "kernel"
    /\ Schedule([state EXCEPT ![t] = how], counter, alarm)
    /\ UNCHANGED <<priority, mode>>

\* The end of a system call; reschedule when the time slice is used up.
LeaveKernel(t) ==
    /\ current = t /\ mode[t] = "kernel"
    /\ mode' = [mode EXCEPT ![t] = "ret"]
    /\ UNCHANGED priority
    /\ IF counter[t] = 0
       THEN Schedule(state, counter, alarm)
       ELSE UNCHANGED <<current, state, counter, signal, alarm>>

\* ret_from_sys_call: take a signal, return to user mode.
RetFromSysCall(t) ==
    /\ current = t /\ mode[t] = "ret"
    /\ mode' = [mode EXCEPT ![t] = "user"]
    /\ signal' = signal \ {t}
    /\ UNCHANGED <<current, state, counter, priority, alarm>>

SysAlarm(t, ticks) ==
    /\ current = t /\ mode[t] = "kernel"
    /\ alarm' = [alarm EXCEPT ![t] = IF ticks > 0 THEN ticks ELSE NoAlarm]
    /\ UNCHANGED <<current, state, counter, priority, mode, signal>>

SysNice(t, increment) ==
    /\ current = t /\ mode[t] = "kernel"
    /\ priority[t] - increment > 0
    /\ priority[t] - increment <= MaxPriority
    /\ priority' = [priority EXCEPT ![t] = @ - increment]
    /\ UNCHANGED <<current, state, counter, mode, signal, alarm>>

\* send_sig, from a task in the kernel or from an interrupt.
PostSignal(t) ==
    /\ t \notin signal
    /\ signal' = signal \cup {t}
    /\ UNCHANGED <<current, state, counter, priority, mode, alarm>>

\* wake_up, from a task in the kernel or from an interrupt.
WakeUp(t) ==
    /\ state[t] # RUNNING
    /\ state' = [state EXCEPT ![t] = RUNNING]
    /\ UNCHANGED <<current, counter, priority, mode, signal, alarm>>

Next ==
    \/ Tick
    \/ IdlePause
    \/ \E t \in Tasks :
        \/ EnterKernel(t)
        \/ \E how \in {INTERRUPTIBLE, UNINTERRUPTIBLE} : Sleep(t, how)
        \/ LeaveKernel(t)
        \/ RetFromSysCall(t)
        \/ t \in Alarmed /\ \E ticks \in 0..MaxAlarm : SysAlarm(t, ticks)
        \/ t \in Niced /\ \E increment \in {-1, 1} : SysNice(t, increment)
        \/ PostSignal(t)
        \/ WakeUp(t)

\* The idle task loops, a system call ends or sleeps.  (Only the current task can.)
GetsOn ==
    \/ IdlePause
    \/ \E t \in Tasks : RetFromSysCall(t) \/ LeaveKernel(t)
    \/ \E t \in Tasks, how \in {INTERRUPTIBLE, UNINTERRUPTIBLE} : Sleep(t, how)

\* The clock never stops, and whoever is in the kernel gets on.
Fairness == WF_vars(Tick) /\ WF_vars(GetsOn)

Spec == Init /\ [][Next]_vars /\ Fairness
-----------------------------------------------------------------------------
TypeOK ==
    /\ current \in 0..NR
    /\ state \in [Tasks -> {RUNNING, INTERRUPTIBLE, UNINTERRUPTIBLE}]
    /\ counter \in [0..NR -> Nat]
    /\ priority \in [Tasks -> 1..MaxPriority]
    /\ mode \in [Tasks -> {"user", "kernel", "ret"}]
    /\ signal \subseteq Tasks
    /\ alarm \in [Tasks -> -2..MaxAlarm]

\* However long a task sleeps, its counter stays below twice the largest
\* priority: p + p/2 + p/4 + ... (docs/06_cpu_sched.md; sched.c:138).  A response
\* time bound for everybody else rests on it.
CounterBound == \A t \in 0..NR : counter[t] < 2 * MaxPriority

\* The CPU is never given to a task that sleeps (sched.c:132).
CurrentCanRun == current # 0 => state[current] = RUNNING

\* No runnable task starves: schedule() gets to it, however the others sleep,
\* wake up, change their priority and use their time.
NoStarvation == \A t \in Tasks : (state[t] = RUNNING) ~> (current = t)

\* An alarm ends an interruptible sleep (sched.c:113-119).
AlarmWakes ==
    \A t \in Alarmed :
        (state[t] = INTERRUPTIBLE /\ alarm[t] # NoAlarm) ~> (state[t] = RUNNING)
=============================================================================
