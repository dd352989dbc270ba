------------------------------ MODULE Process ------------------------------
(***************************************************************************)
(* Process life in the kernel: fork, exit, waitpid, signals, sessions      *)
(* (kernel/fork.c, exit.c, signal.c, sys.c, the return path of             *)
(* system_call.s) and the loop of init (init/main.c).                      *)
(*                                                                         *)
(* The kernel is not preemptive, so a system call is one step up to the    *)
(* place where it calls schedule().  do_exit may sleep while it closes     *)
(* files, so it is two steps.  After its call, and at any tick, a task     *)
(* passes ret_from_sys_call, which delivers one signal.  A process number  *)
(* is the number of its slot in task[]: find_empty_process never gives out *)
(* a number that is in use.  Task 0, which is never waited for and takes   *)
(* no signals, is left out.                                                *)
(***************************************************************************)
EXTENDS Integers, FiniteSets, FiniteSetsExt

CONSTANTS NR_TASKS,   \* slots 1 .. NR_TASKS-1 of task[]
          Sig,        \* the signals in play, by number
          SigActs,    \* the sigactions a program may install
          Groups,     \* the groups setpgid is called with
          Calls       \* what programs do: records [make, send, root] of the calls they
                      \* make, the signals they send, and whether their euid is 0

SIGHUP == 1
SIGKILL == 9
SIGCHLD == 17
Slot == 1 .. NR_TASKS - 1
init == 1

VARIABLES task,    \* task[], "none" where the pointer is NULL
          calls,   \* what the programs of this behaviour do, and with euid 0 or not
          shell    \* the child the loop of init waits for, 0 for none

vars == <<task, calls, shell>>

NoTask == [state |-> "none"]
Default == [handler |-> "dfl", mask |-> {}, oneshot |-> FALSE, nomask |-> FALSE]
Tasks(tk) == {t \in Slot : tk[t] # NoTask}
Alive(tk) == {t \in Tasks(tk) : tk[t].state # "zombie"}

\* The status of init when it enters its loop; everyone descends from it.
FirstTask == [state |-> "run", father |-> 0, signal |-> {}, blocked |-> {},
              sa |-> [s \in Sig |-> Default], pgrp |-> 0, session |-> 0,
              leader |-> FALSE, pc |-> "user", want |-> 0]

Init == /\ task = [t \in Slot |-> IF t = init THEN FirstTask ELSE NoTask]
        /\ calls \in Calls
        /\ shell = 0

-----------------------------------------------------------------------------
(* Signals and the end of a process.                                       *)

\* send_sig to a slot that may be empty; what it refuses changes nothing.
send_sig(tk, sig, t, priv) ==
    IF tk[t] # NoTask /\ priv
    THEN [tk EXCEPT ![t].signal = @ \cup {sig}] ELSE tk

SignalAll(tk, sig, S) ==
    [t \in Slot |-> IF t \in S THEN send_sig(tk, sig, t, TRUE)[t] ELSE tk[t]]

\* The euids of the programs are alike; only init has always euid 0.
MaySignal(t) == calls.root \/ t # init

kill_session(tk, t) ==
    SignalAll(tk, SIGHUP, {u \in Tasks(tk) : tk[u].session = tk[t].session})

release(tk, t) == [tk EXCEPT ![t] = NoTask]

\* No father with that number: the task releases itself.
tell_father(tk, t) ==
    IF tk[t].father \in Tasks(tk)
    THEN send_sig(tk, SIGCHLD, tk[t].father, TRUE)
    ELSE release(tk, t)

Orphaned(tk, t) == {u \in Tasks(tk) : tk[u].father = t}

\* Mutant: init does not hear of dead children.
SilentReparent(tk, t) ==
    [u \in Slot |-> IF u \in Orphaned(tk, t)
                    THEN [tk[u] EXCEPT !.father = init] ELSE tk[u]]

\* do_exit up to the files: the children go to init, which hears of those
\* that are already dead.
Reparent(tk, t) ==
    LET adopted == [u \in Slot |-> IF u \in Orphaned(tk, t)
                                   THEN [tk[u] EXCEPT !.father = init] ELSE tk[u]]
    IN  IF \E u \in Orphaned(tk, t) : tk[u].state = "zombie"
        THEN send_sig(adopted, SIGCHLD, init, TRUE) ELSE adopted
DoExit(tk, t) == [Reparent(tk, t) EXCEPT ![t].pc = "closing"]

\* The rest of do_exit, after the files: the session, the state, the father.
ExitEnd(tk, t) ==
    LET hup == IF tk[t].leader THEN kill_session(tk, t) ELSE tk
    IN  tell_father([hup EXCEPT ![t].state = "zombie"], t)

\* do_signal for the signal the return path took off the pending set.
do_signal(tk, t, sig) ==
    LET sa == tk[t].sa[sig]
    IN  CASE sa.handler = "ign" -> tk
          [] sa.handler = "dfl" /\ sig = SIGCHLD -> tk
          [] sa.handler = "dfl" /\ sig # SIGCHLD -> DoExit(tk, t)
          [] OTHER -> [tk EXCEPT
                 ![t].sa[sig].handler = IF sa.oneshot THEN "dfl" ELSE @,
                 ![t].blocked = @ \cup sa.mask]

\* ret_from_sys_call: one pending signal that is not blocked, lowest first.
ret_from_sys_call(tk, t) ==
    LET back == [tk EXCEPT ![t].pc = "user"]
        due == tk[t].signal \ tk[t].blocked
    IN  IF due = {} THEN back
        ELSE do_signal([back EXCEPT ![t].signal = @ \ {Min(due)}], t, Min(due))

-----------------------------------------------------------------------------
(* fork and waitpid.                                                       *)

\* find_empty_process and copy_process; -EAGAIN leaves the table alone.
Free(tk) == Slot \ Tasks(tk)
copy_process(tk, t) ==
    [tk EXCEPT ![Min(Free(tk))] =
        [tk[t] EXCEPT !.father = t, !.signal = {}, !.leader = FALSE, !.pc = "user"]]

\* The children sys_waitpid(pid, ...) looks at: pid > 0 that child, 0 the
\* caller's group, -1 any, else the group -pid.
Wanted(tk, t, pid) ==
    {u \in Tasks(tk) \ {t} :
        /\ tk[u].father = t
        /\ CASE pid > 0  -> u = pid
             [] pid = 0  -> tk[u].pgrp = tk[t].pgrp
             [] pid = -1 -> TRUE
             [] OTHER    -> tk[u].pgrp = -pid}

\* Mutant: only the last child is looked at.
ForgetsOthers(tk, t, pid, nohang) ==
    LET all  == Wanted(tk, t, pid)
        dead == {u \in all : tk[u].state = "zombie" /\ \A v \in all : v <= u}
    IN  CASE dead # {} -> [release(tk, Max(dead)) EXCEPT ![t].pc = "ret", ![t].want = 0]
          [] dead = {} /\ all # {} /\ ~nohang ->
                 [tk EXCEPT ![t].state = "int", ![t].pc = "waitpid", ![t].want = pid]
          [] OTHER -> [tk EXCEPT ![t].pc = "ret", ![t].want = 0]

\* One pass of the scan, from the last slot down.
Scan(tk, t, pid, nohang) ==
    LET all  == Wanted(tk, t, pid)
        dead == {u \in all : tk[u].state = "zombie"}
    IN  CASE dead # {} -> [release(tk, Max(dead)) EXCEPT ![t].pc = "ret", ![t].want = 0]
          [] dead = {} /\ all # {} /\ ~nohang ->
                 [tk EXCEPT ![t].state = "int", ![t].pc = "waitpid", ![t].want = pid]
          [] OTHER -> [tk EXCEPT ![t].pc = "ret", ![t].want = 0]
-----------------------------------------------------------------------------
(* Steps.                                                                  *)

Ready(t) == t \in Alive(task) /\ task[t].state = "run"
InUser(t) == Ready(t) /\ task[t].pc = "user"
Stay == UNCHANGED calls

\* A call that changes only the table and returns.
Returns(t, tk) == task' = [tk EXCEPT ![t].pc = "ret"] /\ Stay
May(t, call) == InUser(t) /\ t # init /\ call \in calls.make

Fork(t) ==
    /\ May(t, "fork")
    /\ Returns(t, IF Free(task) = {} THEN task ELSE copy_process(task, t))

Exit(t) == May(t, "exit") /\ task' = DoExit(task, t) /\ Stay

Closed(t) == Ready(t) /\ task[t].pc = "closing" /\ task' = ExitEnd(task, t)
             /\ UNCHANGED shell /\ Stay

Waitpid(t) ==
    /\ May(t, "wait")
    /\ \E pid \in {-1, 0} \cup (Slot \ {init}) \cup {-g : g \in Slot \ {init}},
          nohang \in BOOLEAN :
            task' = Scan(task, t, pid, nohang)
    /\ Stay

\* Back from schedule() inside waitpid: a second scan, or -EINTR.
WaitpidWoken(t) ==
    /\ Ready(t) /\ task[t].pc = "waitpid"
    /\ LET woken == [task EXCEPT ![t].signal = @ \ {SIGCHLD}]
       IN  task' = IF woken[t].signal = {}
                   THEN Scan(woken, t, task[t].want, FALSE)
                   ELSE [woken EXCEPT ![t].pc = "ret", ![t].want = 0]
    /\ shell' = IF t = init /\ shell \notin Tasks(task') THEN 0 ELSE shell
    /\ Stay

Pause(t) ==
    /\ May(t, "pause")
    /\ task' = [task EXCEPT ![t].state = "int", ![t].pc = "ret"]
    /\ Stay

\* schedule() makes a sleeper with a signal runnable; SIGKILL cannot be
\* blocked here, in the return path it can.
Wake(t) ==
    /\ t \in Tasks(task) /\ task[t].state = "int"
    /\ task[t].signal \ (task[t].blocked \ {SIGKILL}) # {}
    /\ task' = [task EXCEPT ![t].state = "run"]
    /\ UNCHANGED shell /\ Stay

\* The end of a system call, or of a timer interrupt in user mode.
Ret(t) ==
    /\ Ready(t)
    /\ \/ task[t].pc = "ret"
       \/ task[t].pc = "user" /\ task[t].signal # {}
    /\ task' = ret_from_sys_call(task, t)
    /\ UNCHANGED shell /\ Stay

\* sys_kill: 0 the tasks whose group is the caller's NUMBER, > 0 one task,
\* -1 all, else a group.
Kill(t) ==
    /\ May(t, "kill")
    /\ \E pid \in {-1, 0} \cup Slot \cup {-g : g \in Slot},
          sig \in calls.send :
        LET all == CASE pid = 0  -> {u \in Tasks(task) : task[u].pgrp = t}
                     [] pid > 0  -> {u \in Tasks(task) : u = pid /\ MaySignal(u)}
                     [] pid = -1 -> {u \in Tasks(task) : MaySignal(u)}
                     [] OTHER    -> {u \in Tasks(task) : task[u].pgrp = -pid /\ MaySignal(u)}
        IN  Returns(t, SignalAll(task, sig, all))

Ssetmask(t) ==
    /\ May(t, "mask")
    /\ \E mask \in SUBSET Sig : Returns(t, [task EXCEPT ![t].blocked = mask \ {SIGKILL}])

\* sys_sigaction, and sys_signal as the call with a one-shot action.
Sigaction(t) ==
    /\ May(t, "sigaction")
    /\ \E sig \in Sig \ {SIGKILL}, sa \in SigActs :
         Returns(t, [task EXCEPT ![t].sa[sig] =
             [sa EXCEPT !.mask = IF sa.nomask THEN {} ELSE @ \cup {sig}]])

Setpgid(t) ==
    /\ May(t, "setpgid")
    /\ \E u \in Tasks(task), pgid \in Groups :
        /\ ~task[u].leader /\ task[u].session = task[t].session
        /\ Returns(t, [task EXCEPT ![u].pgrp = pgid])

Setsid(t) ==
    /\ May(t, "setsid")
    /\ ~task[t].leader \/ calls.root
    /\ Returns(t, [task EXCEPT ![t].leader = TRUE, ![t].session = t, ![t].pgrp = t])

\* The loop of init(): start a shell, then wait() until it is the one that
\* died.
InitFork ==
    /\ InUser(init) /\ shell = 0
    /\ IF Free(task) = {}
       THEN Returns(init, task) /\ UNCHANGED shell
       ELSE Returns(init, copy_process(task, init)) /\ shell' = Min(Free(task))

InitWait ==
    /\ InUser(init) /\ shell # 0
    /\ task' = Scan(task, init, -1, FALSE)
    /\ shell' = IF shell \in Tasks(task') THEN shell ELSE 0
    /\ Stay

Program(t) ==
    \/ Fork(t) \/ Exit(t) \/ Waitpid(t) \/ Pause(t) \/ Kill(t)
    \/ Ssetmask(t) \/ Sigaction(t) \/ Setpgid(t) \/ Setsid(t)
Kernel(t) == Closed(t) \/ WaitpidWoken(t) \/ Wake(t) \/ Ret(t)

InitLoop == InitFork \/ InitWait

Next == \/ InitLoop
        \/ \E t \in Slot : Kernel(t)
        \/ \E t \in Slot : Program(t) /\ UNCHANGED shell

\* The scheduler gives every runnable task the processor (Scheduler), so the
\* kernel's part of a call is finished and init's loop goes on.  Programs owe
\* nothing.
Spec == /\ Init /\ [][Next]_vars
        /\ \A t \in Slot : WF_vars(Kernel(t))
        /\ WF_vars(InitLoop)

-----------------------------------------------------------------------------
(* Properties.                                                             *)

\* sys_waitpid sleeps without a lock between its scan and schedule(): a task
\* asleep there for any child, or for one child, never has that child dead
\* without SIGCHLD pending to wake it.
WaiterIsTold ==
    \A t \in Tasks(task) :
        /\ task[t].state = "int" /\ task[t].pc = "waitpid"
        /\ task[t].want >= -1 /\ task[t].want # 0
        /\ \E u \in Wanted(task, t, task[t].want) : task[u].state = "zombie"
        => SIGCHLD \in task[t].signal

\* A dead child of init, born to it or left to it by a father that exited,
\* does not stay for ever the next one to be released, as long as init itself
\* is not killed: the only way is that init finds the task table full when it
\* wants its next shell, for then its loop calls fork() for ever and wait()
\* never (init/main.c).
InitDead == {t \in Wanted(task, init, -1) : task[t].state = "zombie"}
OrphansReaped ==
    \A t \in Slot \ {init} :
        /\ [](init \in Alive(task))
        /\ <>[](InitDead # {} /\ Max(InitDead) = t)
        => []<>(shell = 0 /\ Free(task) = {})
=============================================================================
