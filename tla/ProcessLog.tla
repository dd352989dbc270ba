---------------------------- MODULE ProcessLog ----------------------------
(***************************************************************************)
(* The process-tracking exercise: the kernel of OS/process, whose          *)
(* scheduler, sleeps, fork and exit write a line to /var/process.log at    *)
(* each change of state, together with the reader of that log, stat_log.py.*)
(*                                                                         *)
(* Lines are N (new), J (ready), R (running), W (waiting), E (exit).  The  *)
(* reader keeps the last state of every process and stops at the first     *)
(* line it finds impossible; its verdict is part of the state, so that the *)
(* log itself need not be kept.  fprintk is one step here: the model       *)
(* leaves out that file_write may itself sleep.  The counters of the       *)
(* scheduler are left out too: any runnable task may be chosen.            *)
(***************************************************************************)
EXTENDS Naturals, FiniteSets, FiniteSetsExt

CONSTANTS Pid,      \* 0 .. n; 0 is the idle task, 1 is init
          Queue,    \* wait queues used with sleep_on
          IQueue    \* wait queues used with interruptible_sleep_on

VARIABLES
    k,      \* what the code changes: see First
    cpu     \* current

vars == <<k, cpu>>

Nobody == 0  \* NULL: task 0 never waits in a queue

\* The state in which main() has opened the log: task 0 runs, and the reader
\* begins with process 0 new and running.
First == [state   |-> [p \in Pid |-> IF p = 0 THEN "run" ELSE "none"],
          father  |-> [p \in Pid |-> 0],
          signal  |-> [p \in Pid |-> {}],   \* "chld", and "other" for any other
          pc      |-> [p \in Pid |-> "user"],
          tmp     |-> [p \in Pid |-> Nobody],
          head    |-> [q \in Queue \cup IQueue |-> Nobody],
          last    |-> [p \in Pid |-> IF p = 0 THEN "R" ELSE "none"],
          prev    |-> <<>>,
          verdict |-> "ok"]

Init == k = First /\ cpu = 0

-----------------------------------------------------------------------------
(* The reader.                                                             *)

\* process_pool.new
new(s, p) == IF s.last[p] # "none" THEN "DuplicateNew" ELSE "ok"

\* process.change_state
change_state(s, p, c) ==
    CASE s.last[p] = "E" -> "TaskHasExited"
      [] s.last[p] = c /\ p # 0 -> "RepeatState"
      [] OTHER -> "ok"

\* The main loop for one line.  A line equal to the one before it is SameLine
\* in the same tick and RepeatState in a later one; the model calls both
\* SameLine.
Judge(s, p, c) ==
    CASE s.prev = <<p, c>> -> "SameLine"
      [] s.prev # <<p, c>> /\ c = "N" -> new(s, p)
      [] s.prev # <<p, c>> /\ c # "N" ->
             IF s.last[p] = "none" THEN "NoNew" ELSE change_state(s, p, c)

\* fprintk(3, "%ld\t%c\t%ld\n", p, c, jiffies): the reader stops at an error.
fprintk(s, p, c) ==
    IF s.verdict # "ok" THEN s
    ELSE [s EXCEPT !.verdict = Judge(s, p, c), !.last[p] = c, !.prev = <<p, c>>]

-----------------------------------------------------------------------------
(* The scheduler.                                                          *)

\* The first loop of schedule(), from the last task down to task 1.
Woken(s) ==
    LET due == {p \in Pid \ {0} : s.signal[p] # {} /\ s.state[p] = "int"}
        Wake[n \in Nat] ==
            IF n = 0 THEN s
            ELSE LET t == Wake[n - 1]
                     p == Max({x \in due : Cardinality({y \in due : y >= x}) = n})
                 IN  fprintk([t EXCEPT !.state[p] = "run"], p, "J")
    IN  Wake[Cardinality(due)]

Runnable(s) == {p \in Pid \ {0} : s.state[p] = "run"}

\* Mutant: J for a task that left the processor asleep, too.
ReadyEvenAsleep(s, p, next) ==
    IF p = next THEN s
    ELSE fprintk(IF s.state[p] # "zombie" THEN fprintk(s, p, "J") ELSE s, next, "R")

\* The lines before switch_to(next).
Switched(s, p, next) ==
    IF p = next THEN s
    ELSE fprintk(IF s.state[p] = "run" THEN fprintk(s, p, "J") ELSE s, next, "R")

\* schedule() called by the current task in state s.
schedule(s) ==
    \E next \in Runnable(Woken(s)) \cup (IF Runnable(Woken(s)) = {} THEN {0} ELSE {}) :
        /\ k' = Switched(Woken(s), cpu, next)
        /\ cpu' = next

\* A call that goes on without schedule().
Stay(s) == k' = s /\ UNCHANGED cpu

\* Making the task behind a queue pointer runnable; Nobody is NULL.
Up(s, p) == IF p = Nobody THEN s ELSE fprintk([s EXCEPT !.state[p] = "run"], p, "J")

-----------------------------------------------------------------------------
(* The calls of the current task.                                          *)

User == k.pc[cpu] = "user"

\* copy_process: N and J for the child.  Task 0 forks init and nobody else.
Fork ==
    /\ User
    /\ cpu = 0 <=> k.state[1] = "none"
    /\ \E p \in Pid :
        /\ k.last[p] = "none"
        /\ p = Min({x \in Pid : k.last[x] = "none"})
        /\ Stay(fprintk(fprintk([k EXCEPT !.state[p] = "run", !.father[p] = cpu],
                                p, "N"), p, "J"))

\* tell_father
tell_father(s, p) == [s EXCEPT !.signal[p] = @ \cup {"chld"}]

\* do_exit: init adopts the children and hears of the dead ones.  Init does
\* not exit.
do_exit ==
    /\ User /\ cpu \notin {0, 1}
    /\ LET orphans == {p \in Pid : k.father[p] = cpu /\ k.state[p] # "none"}
           adopted == [k EXCEPT !.father = [p \in Pid |-> IF p \in orphans THEN 1 ELSE @[p]]]
           told == IF \E p \in orphans : k.state[p] = "zombie"
                   THEN [adopted EXCEPT !.signal[1] = @ \cup {"chld"}] ELSE adopted
       IN  schedule(tell_father(fprintk([told EXCEPT !.state[cpu] = "zombie"], cpu, "E"),
                                k.father[cpu]))

\* release, which ends in schedule().
release(s, p) == schedule([s EXCEPT !.state[p] = "none", !.pc[cpu] = "user"])

\* sys_waitpid(-1): release a dead child, or W and sleep until a signal.
Children(s) == {p \in Pid : s.father[p] = cpu /\ s.state[p] # "none"}
Dead(s) == {p \in Children(s) : s.state[p] = "zombie"}
WaitScan(s) ==
    \/ Dead(s) # {} /\ release(s, Max(Dead(s)))
    \/ /\ Dead(s) = {} /\ Children(s) # {}
       /\ schedule(fprintk([s EXCEPT !.state[cpu] = "int", !.pc[cpu] = "wait"], cpu, "W"))
    \/ Children(s) = {} /\ Stay([s EXCEPT !.pc[cpu] = "user"])
sys_waitpid == User /\ cpu # 0 /\ Children(k) # {} /\ WaitScan(k)
sys_waitpid_woken ==
    /\ k.pc[cpu] = "wait"
    /\ LET s == [k EXCEPT !.signal[cpu] = @ \ {"chld"}]
       IN  IF s.signal[cpu] = {} THEN WaitScan(s) ELSE Stay([s EXCEPT !.pc[cpu] = "user"])

\* sys_pause; only task 0 pauses without a line.
sys_pause ==
    /\ User
    /\ cpu = 0 => k.state[1] # "none"
    /\ LET s == [k EXCEPT !.state[cpu] = "int"]
       IN  schedule(IF cpu = 0 THEN s ELSE fprintk(s, cpu, "W"))

sleep_on(q) ==
    /\ User /\ cpu # 0
    /\ schedule(fprintk([k EXCEPT !.tmp[cpu] = k.head[q], !.head[q] = cpu,
                                  !.state[cpu] = "unint", !.pc[cpu] = "sleep"],
                        cpu, "W"))
sleep_on_woken ==
    /\ k.pc[cpu] = "sleep"
    /\ Stay(Up([k EXCEPT !.tmp[cpu] = Nobody, !.pc[cpu] = "user"], k.tmp[cpu]))

interruptible_sleep_on(q) ==
    /\ User /\ cpu # 0
    /\ schedule(fprintk([k EXCEPT !.tmp[cpu] = k.head[q], !.head[q] = cpu,
                                  !.state[cpu] = "int", !.pc[cpu] = q],
                        cpu, "W"))
interruptible_sleep_on_woken(q) ==
    /\ k.pc[cpu] = q
    /\ IF k.head[q] \notin {Nobody, cpu}
       THEN schedule(fprintk([Up(k, k.head[q]) EXCEPT !.state[cpu] = "int"], cpu, "W"))
       ELSE Stay(Up([k EXCEPT !.head[q] = Nobody, !.tmp[cpu] = Nobody,
                              !.pc[cpu] = "user"], k.tmp[cpu]))

\* wake_up by whoever holds the processor, a task or an interrupt.
wake_up(q) ==
    k.head[q] # Nobody /\ Stay(Up([k EXCEPT !.head[q] = Nobody], k.head[q]))

\* A signal that is not blocked, and its delivery on the return to user mode
\* (a handler runs; the default action is do_exit).
Signal == \E p \in Pid \ {0} :
    /\ k.state[p] \in {"run", "int", "unint"} /\ "other" \notin k.signal[p]
    /\ Stay([k EXCEPT !.signal[p] = @ \cup {"other"}])
Deliver == User /\ k.signal[cpu] # {} /\ Stay([k EXCEPT !.signal[cpu] = {}])

\* do_timer: the time slice of a task in user mode is over.
Preempt == User /\ cpu # 0 /\ schedule(k)

Step == \/ Fork \/ do_exit \/ sys_waitpid \/ sys_waitpid_woken \/ sys_pause
        \/ sleep_on_woken \/ Signal \/ Deliver \/ Preempt
        \/ \E q \in Queue : sleep_on(q)
        \/ \E q \in IQueue : interruptible_sleep_on(q) \/ interruptible_sleep_on_woken(q)
        \/ \E q \in Queue \cup IQueue : wake_up(q)

\* Nothing is asked of what happens after the reader has stopped.
Next == k.verdict = "ok" /\ Step

Spec == Init /\ [][Next]_vars

-----------------------------------------------------------------------------
(* Properties.                                                             *)

\* What stat_log.py takes for granted when it adds up times: while it accepts
\* the log, the last line of a process other than 0 is its real state.  W is
\* written last exactly for the tasks that sleep and E for the dead, and a
\* process whose last line is R is the one on the processor.
LogIsTrue ==
    k.verdict = "ok" =>
        \A p \in Pid \ {0} :
            /\ k.state[p] \in {"int", "unint"} <=> k.last[p] = "W"
            /\ k.state[p] = "zombie" => k.last[p] = "E"
            /\ k.last[p] = "R" => p = cpu

\* stat_log.py takes it that no process is logged after its E: "The process has
\* exited. Why it enter '%s' state again?" (stat_log.py:72).
ExitedStaysExited == k.verdict # "TaskHasExited"
=============================================================================
