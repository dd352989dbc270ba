--------------------------- MODULE ProcessProofs ---------------------------
(***************************************************************************)
(* For any number of tasks, any signals and whatever programs call: a task *)
(* asleep in waitpid has been told of a dead child it waits for.  And for  *)
(* any priorities: the counters of the scheduler are bounded, and whoever  *)
(* has the CPU can run.                                                    *)
(***************************************************************************)
EXTENDS Process, WellFoundedInduction, TLAPS

\* What the theorem assumes of the constants.
Room == NR_TASKS \in Nat /\ NR_TASKS > 1

Fields == {"state", "father", "signal", "blocked", "sa", "pgrp", "session", "leader", "pc", "want"}

\* A task, as far as waitpid looks at it.
IsTask(r) ==
    /\ DOMAIN r = Fields
    /\ r.state \in {"run", "int", "zombie"}
    /\ r.want \in Int

Table(tk) == DOMAIN tk = Slot /\ \A t \in Slot : tk[t] = NoTask \/ IsTask(tk[t])

\* Asleep in waitpid, for any child or for one.
Asleep(r) == r.state = "int" /\ r.pc = "waitpid" /\ (r.want = -1 \/ r.want > 0)

\* A dead child of t that r waits for.
DeadChild(tk, t, r, u) ==
    tk[u] # NoTask /\ u # t /\ tk[u].father = t /\ tk[u].state = "zombie" /\ (r.want = -1 \/ u = r.want)

Told(tk) ==
    \A t, u \in Slot :
        tk[t] # NoTask /\ Asleep(tk[t]) /\ DeadChild(tk, t, tk[t], u) => SIGCHLD \in tk[t].signal

\* The inductive invariant of WaiterIsTold.
WInv(tk) == Table(tk) /\ Told(tk)
-----------------------------------------------------------------------------
LEMMA Least ==
    ASSUME NEW S, S \subseteq Nat, S # {}
    PROVE  \E x \in S : \A y \in S : x =< y
<1> DEFINE R == {ss \in Nat \X Nat : ss[1] < ss[2]}
<1>1. IsWellFoundedOn(R, Nat)
  BY ZenonT(60), NatLessThanWellFounded DEF OpToRel
<1> HIDE DEF R
<1>2. PICK x \in S : \A y \in S : ~(<<y, x>> \in R)
  BY ZenonT(60), <1>1, WFMin
<1>3. \A y \in S : ~(y < x)
  BY ZenonT(60), <1>2 DEF R
<1>4. \A y \in S : x =< y
  BY SMTT(60), <1>3
<1> QED
  BY ZenonT(60), <1>4

LEMMA Greatest ==
    ASSUME NEW N \in Nat, NEW S, S \subseteq 1..N, S # {}
    PROVE  \E x \in S : \A y \in S : x >= y
<1> DEFINE D == {N - x : x \in S}
<1>1. D \subseteq Nat /\ D # {}
  <2>1. \A x \in S : N - x \in Nat
    BY SMTT(60)
  <2> QED
    BY ZenonT(60), <2>1
<1>2. PICK d \in D : \A e \in D : d =< e
  BY ZenonT(60), <1>1, Least
<1>3. PICK x \in S : d = N - x
  BY ZenonT(60), <1>2
<1>4. \A y \in S : N - y \in D
  BY ZenonT(60)
<1> HIDE DEF D
<1>5. \A y \in S : x >= y
  BY SMTT(60), <1>2, <1>3, <1>4
<1> QED
  BY ZenonT(60), <1>5

\* The slots find_empty_process and the scan of waitpid choose.
LEMMA ChosenSlots ==
    ASSUME Room, NEW S, S \subseteq Slot, S # {}
    PROVE  Min(S) \in S /\ Max(S) \in S
<1>1. NR_TASKS - 1 \in Nat /\ S \subseteq 1..(NR_TASKS - 1) /\ S \subseteq Nat
  BY SMTT(60) DEF Slot, Room
<1>2. \E x \in S : \A y \in S : x =< y
  BY ZenonT(60), <1>1, Least
<1>3. \E x \in S : \A y \in S : x >= y
  BY ZenonT(60), <1>1, Greatest
<1> QED
  BY ZenonT(60), <1>2, <1>3 DEF Min, Max

LEMMA NoTaskIsNone ==
    /\ NoTask.state = "none" /\ ~IsTask(NoTask)
    /\ \A r : IsTask(r) => r # NoTask
<1>1. NoTask.state = "none"
  BY ZenonT(60) DEF NoTask
<1> QED
  BY ZenonT(60), <1>1 DEF IsTask
-----------------------------------------------------------------------------
\* b follows a in a slot: nobody dies and nobody falls asleep in waitpid.
Follows(a, b) ==
    \/ b = NoTask
    \/ /\ b.state = "zombie" => a # NoTask /\ a.state = "zombie" /\ b.father = a.father
       /\ Asleep(b) => a # NoTask /\ Asleep(a) /\ b.want = a.want /\ a.signal \subseteq b.signal

LEMMA FollowsKeeps ==
    ASSUME NEW tk, WInv(tk), NEW next, Table(next), \A t \in Slot : Follows(tk[t], next[t])
    PROVE  WInv(next)
<1> SUFFICES ASSUME NEW t \in Slot, NEW u \in Slot,
                    next[t] # NoTask, Asleep(next[t]), DeadChild(next, t, next[t], u)
             PROVE  SIGCHLD \in next[t].signal
  BY ZenonT(60) DEF WInv, Told
<1>1. tk[t] # NoTask /\ Asleep(tk[t]) /\ next[t].want = tk[t].want /\ tk[t].signal \subseteq next[t].signal
  BY ZenonT(60) DEF Follows
<1>2. tk[u] # NoTask /\ tk[u].state = "zombie" /\ next[u].father = tk[u].father
  BY ZenonT(60) DEF Follows, DeadChild
<1>3. DeadChild(tk, t, tk[t], u)
  BY ZenonT(60), <1>1, <1>2 DEF DeadChild
<1> QED
  BY ZenonT(60), <1>1, <1>3 DEF WInv, Told

Put(tk, t, r) == [tk EXCEPT ![t] = r]

\* One task changes.
LEMMA TaskKeeps ==
    ASSUME NEW tk, WInv(tk), NEW t \in Slot, NEW r, r = NoTask \/ IsTask(r), Follows(tk[t], r)
    PROVE  WInv(Put(tk, t, r))
<1> DEFINE next == [tk EXCEPT ![t] = r]
<1>1. DOMAIN next = Slot /\ next[t] = r /\ \A u \in Slot \ {t} : next[u] = tk[u]
  BY ZenonT(60) DEF WInv, Table
<1>2. Table(next)
  BY ZenonT(60), <1>1 DEF WInv, Table
<1>3. \A u \in Slot : Follows(tk[u], next[u])
  BY ZenonT(60), <1>1 DEF Follows
<1> HIDE DEF next
<1>4. WInv(next)
  BY ZenonT(60), <1>2, <1>3, FollowsKeeps
<1> QED
  BY ZenonT(60), <1>4 DEF next, Put

\* Signals are added.
LEMMA SendSigKeeps ==
    ASSUME NEW tk, WInv(tk), NEW sig, NEW t \in Slot, NEW priv
    PROVE  WInv(send_sig(tk, sig, t, priv))
<1>1. CASE ~(tk[t] # NoTask /\ priv)
  BY ZenonT(60), <1>1 DEF send_sig
<1>2. CASE tk[t] # NoTask /\ priv
  <2> DEFINE r == [tk[t] EXCEPT !.signal = @ \cup {sig}]
  <2>1. IsTask(tk[t])
    BY ZenonT(60), <1>2 DEF WInv, Table
  <2>2. IsTask(r) /\ Follows(tk[t], r)
    BY ZenonT(60), <1>2, <2>1 DEF IsTask, Fields, Follows, Asleep
  <2>3. send_sig(tk, sig, t, priv) = Put(tk, t, r)
    BY ZenonT(60), <1>2 DEF send_sig, Put
  <2> HIDE DEF r
  <2> QED
    BY ZenonT(60), <2>2, <2>3, TaskKeeps
<1> QED
  BY ZenonT(60), <1>1, <1>2

LEMMA SignalAllKeeps ==
    ASSUME NEW tk, WInv(tk), NEW sig, NEW S
    PROVE  LET next == SignalAll(tk, sig, S)
           IN  /\ WInv(next)
               /\ \A t \in Slot : IsTask(tk[t]) => /\ IsTask(next[t]) /\ next[t].state = tk[t].state
                                                   /\ next[t].father = tk[t].father
<1> DEFINE next == SignalAll(tk, sig, S)
<1>1. ASSUME NEW t \in Slot
      PROVE  /\ next[t] = NoTask \/ IsTask(next[t])
             /\ Follows(tk[t], next[t])
             /\ IsTask(tk[t]) => /\ IsTask(next[t]) /\ next[t].state = tk[t].state
                                 /\ next[t].father = tk[t].father
  <2>1. CASE t \in S /\ tk[t] # NoTask
    <3> DEFINE r == [tk[t] EXCEPT !.signal = @ \cup {sig}]
    <3>1. IsTask(tk[t]) /\ t \in DOMAIN tk
      BY ZenonT(60), <2>1 DEF WInv, Table
    <3>2. IsTask(r) /\ Follows(tk[t], r) /\ r.state = tk[t].state /\ r.father = tk[t].father
      BY ZenonT(60), <2>1, <3>1 DEF IsTask, Fields, Follows, Asleep
    <3>3. next[t] = r
      BY ZenonT(60), <2>1, <3>1 DEF SignalAll, send_sig
    <3> HIDE DEF r, next
    <3> QED
      BY ZenonT(60), <3>2, <3>3
  <2>2. CASE ~(t \in S /\ tk[t] # NoTask)
    <3>1. next[t] = tk[t]
      BY ZenonT(60), <2>2 DEF SignalAll, send_sig
    <3> HIDE DEF next
    <3> QED
      BY ZenonT(60), <3>1 DEF WInv, Table, Follows
  <2> QED
    BY ZenonT(60), <2>1, <2>2
<1>2. DOMAIN next = Slot
  BY ZenonT(60) DEF SignalAll
<1> HIDE DEF next
<1>3. Table(next)
  BY ZenonT(60), <1>1, <1>2 DEF Table
<1>4. WInv(next)
  BY ZenonT(60), <1>1, <1>3, FollowsKeeps
<1> QED
  BY ZenonT(60), <1>1, <1>4 DEF next

\* A task that is running, or asleep elsewhere.
Active(r) == IsTask(r) /\ r.state # "zombie" /\ ~(r.state = "int" /\ r.pc = "waitpid")

LEMMA PutAt ==
    ASSUME NEW tk, WInv(tk), NEW t \in Slot, NEW r
    PROVE  Put(tk, t, r)[t] = r /\ \A u \in Slot : u # t => Put(tk, t, r)[u] = tk[u]
  BY ZenonT(60) DEF Put, WInv, Table

LEMMA ActiveKeeps ==
    ASSUME NEW tk, WInv(tk), NEW t \in Slot, NEW r, Active(r)
    PROVE  WInv(Put(tk, t, r))
<1>1. Follows(tk[t], r) /\ IsTask(r)
  BY ZenonT(60) DEF Active, Follows, Asleep
<1> QED
  BY ZenonT(60), <1>1, TaskKeeps

LEMMA ReleaseKeeps ==
    ASSUME NEW tk, WInv(tk), NEW t \in Slot
    PROVE  /\ WInv(release(tk, t)) /\ release(tk, t)[t] = NoTask
           /\ \A u \in Slot \ {t} : release(tk, t)[u] = tk[u]
<1>1. release(tk, t) = Put(tk, t, NoTask)
  BY ZenonT(60) DEF release, Put
<1>2. Follows(tk[t], NoTask)
  BY ZenonT(60) DEF Follows
<1>3. t \in DOMAIN tk /\ DOMAIN tk = Slot
  BY ZenonT(60) DEF WInv, Table
<1>4. release(tk, t)[t] = NoTask /\ \A u \in Slot \ {t} : release(tk, t)[u] = tk[u]
  BY ZenonT(60), <1>3 DEF release
<1> QED
  BY ZenonT(60), <1>1, <1>2, <1>4, TaskKeeps

\* copy_process: the child takes an empty slot and runs.
LEMMA CopyKeeps ==
    ASSUME Room, NEW tk, WInv(tk), NEW t \in Slot, IsTask(tk[t]), tk[t].state = "run", Free(tk) # {}
    PROVE  WInv(copy_process(tk, t)) /\ copy_process(tk, t)[t] = tk[t]
<1> DEFINE n == Min(Free(tk))
           r == [tk[t] EXCEPT !.father = t, !.signal = {}, !.leader = FALSE, !.pc = "user"]
<1>1. n \in Slot /\ n # t
  <2>1. n \in Free(tk)
    BY ZenonT(60), ChosenSlots DEF Free
  <2>2. t \notin Free(tk)
    BY ZenonT(60), NoTaskIsNone DEF Free, Tasks
  <2> QED
    BY ZenonT(60), <2>1, <2>2 DEF Free
<1>2. Active(r)
  <2>1. DOMAIN r = Fields
    BY ZenonT(60) DEF IsTask
  <2>2. r.state = tk[t].state
    BY ZenonT(60) DEF IsTask, Fields
  <2>3. r.want = tk[t].want
    BY ZenonT(60) DEF IsTask, Fields
  <2> HIDE DEF r
  <2> QED
    BY ZenonT(60), <2>1, <2>2, <2>3 DEF Active, IsTask
<1>3. copy_process(tk, t) = Put(tk, n, r)
  BY ZenonT(60) DEF copy_process, Put
<1> HIDE DEF n, r
<1>4. WInv(Put(tk, n, r))
  BY SMTT(60), <1>1, <1>2, ActiveKeeps
<1>5. Put(tk, n, r)[t] = tk[t]
  BY SMTT(60), <1>1, PutAt
<1> QED
  BY ZenonT(60), <1>3, <1>4, <1>5

\* r, a task, with one field changed.
Same(n, r) == IsTask(n) /\ n.state = r.state /\ n.father = r.father /\ n.pc = r.pc /\ n.want = r.want

LEMMA SetPc ==
    ASSUME NEW r, IsTask(r), NEW v
    PROVE  LET n == [r EXCEPT !.pc = v] IN IsTask(n) /\ n.state = r.state /\ n.father = r.father /\ n.pc = v /\ n.want = r.want
  BY ZenonT(60) DEF IsTask, Fields, Same

LEMMA SetSignal ==
    ASSUME NEW r, IsTask(r), NEW v
    PROVE  LET n == [r EXCEPT !.signal = v] IN Same(n, r) /\ n.signal = v
  BY ZenonT(60) DEF IsTask, Fields, Same

LEMMA SetPgrp ==
    ASSUME NEW r, IsTask(r), NEW v
    PROVE  LET n == [r EXCEPT !.pgrp = v] IN Same(n, r) /\ n.signal = r.signal
  BY ZenonT(60) DEF IsTask, Fields, Same

LEMMA SetSession ==
    ASSUME NEW r, IsTask(r), NEW v
    PROVE  LET n == [r EXCEPT !.session = v] IN Same(n, r)
  BY ZenonT(60) DEF IsTask, Fields, Same

LEMMA SetLeader ==
    ASSUME NEW r, IsTask(r), NEW v
    PROVE  LET n == [r EXCEPT !.leader = v] IN Same(n, r)
  BY ZenonT(60) DEF IsTask, Fields, Same

LEMMA SetSa ==
    ASSUME NEW r, IsTask(r), NEW v
    PROVE  LET n == [r EXCEPT !.sa = v] IN Same(n, r)
  BY ZenonT(60) DEF IsTask, Fields, Same

LEMMA SetBlocked ==
    ASSUME NEW r, IsTask(r), NEW v
    PROVE  LET n == [r EXCEPT !.blocked = v] IN Same(n, r)
  BY ZenonT(60) DEF IsTask, Fields, Same

LEMMA SetFather ==
    ASSUME NEW r, IsTask(r), NEW v
    PROVE  LET n == [r EXCEPT !.father = v] IN 
           IsTask(n) /\ n.state = r.state /\ n.father = v /\ n.pc = r.pc /\ n.want = r.want /\ n.signal = r.signal
  BY ZenonT(60) DEF IsTask, Fields, Same

LEMMA SetWant ==
    ASSUME NEW r, IsTask(r), NEW v \in Int
    PROVE  LET n == [r EXCEPT !.want = v] IN IsTask(n) /\ n.state = r.state /\ n.father = r.father /\ n.pc = r.pc /\ n.want = v
  BY ZenonT(60) DEF IsTask, Fields, Same

LEMMA SetState ==
    ASSUME NEW r, IsTask(r), NEW v \in {"run", "int", "zombie"}
    PROVE  LET n == [r EXCEPT !.state = v] IN 
           IsTask(n) /\ n.state = v /\ n.father = r.father /\ n.pc = r.pc /\ n.want = r.want /\ n.signal = r.signal
  BY ZenonT(60) DEF IsTask, Fields, Same

-----------------------------------------------------------------------------
\* do_exit up to the files: init is told of the dead children it gets.
LEMMA ReparentKeeps ==
    ASSUME Room, NEW tk, WInv(tk), NEW t \in Slot, IsTask(tk[t]), tk[t].state = "run"
    PROVE  WInv(Reparent(tk, t)) /\ IsTask(Reparent(tk, t)[t]) /\ Reparent(tk, t)[t].state = "run"
<1> DEFINE O == Orphaned(tk, t)
           adopted == [u \in Slot |-> IF u \in O THEN [tk[u] EXCEPT !.father = init] ELSE tk[u]]
           told == \E u \in O : tk[u].state = "zombie"
           next == IF told THEN send_sig(adopted, SIGCHLD, init, TRUE) ELSE adopted
<1>1. init \in Slot
  BY SMTT(60) DEF init, Slot, Room
<1>2. Reparent(tk, t) = next
  BY ZenonT(60) DEF Reparent
<1>3. \A u \in O : u \in Slot /\ IsTask(tk[u]) /\ tk[u].father = t
  BY ZenonT(60) DEF Orphaned, Tasks, WInv, Table
<1>4. /\ DOMAIN adopted = Slot
      /\ \A u \in Slot \ O : adopted[u] = tk[u]
      /\ \A u \in O : /\ IsTask(adopted[u]) /\ adopted[u].state = tk[u].state /\ adopted[u].father = init
                      /\ adopted[u].pc = tk[u].pc /\ adopted[u].want = tk[u].want
                      /\ adopted[u].signal = tk[u].signal
  <2>1. DOMAIN adopted = Slot /\ \A u \in Slot \ O : adopted[u] = tk[u]
    BY ZenonT(60)
  <2>2. ASSUME NEW u \in O
        PROVE  /\ IsTask(adopted[u]) /\ adopted[u].state = tk[u].state /\ adopted[u].father = init
               /\ adopted[u].pc = tk[u].pc /\ adopted[u].want = tk[u].want
               /\ adopted[u].signal = tk[u].signal
    <3>1. adopted[u] = [tk[u] EXCEPT !.father = init]
      BY ZenonT(60), <1>3
    <3> HIDE DEF adopted
    <3> QED
      BY SMTT(60), <1>3, <3>1, SetFather
  <2> HIDE DEF adopted
  <2> QED
    BY ZenonT(60), <2>1, <2>2
<1> HIDE DEF adopted, O
<1>5. Table(adopted)
  BY ZenonT(60), <1>4 DEF WInv, Table
\* What adopting changes: only the children of t, and only their father.
<1>6. ASSUME NEW a \in Slot
      PROVE  /\ (adopted[a] = NoTask) = (tk[a] = NoTask)
             /\ tk[a] # NoTask => /\ adopted[a].state = tk[a].state /\ adopted[a].pc = tk[a].pc
                                  /\ adopted[a].want = tk[a].want /\ adopted[a].signal = tk[a].signal
             /\ adopted[a].father = tk[a].father \/ (a \in O /\ adopted[a].father = init)
  BY ZenonT(60), <1>3, <1>4, NoTaskIsNone
<1>7. ASSUME NEW a \in Slot, NEW u \in Slot, adopted[a] # NoTask, Asleep(adopted[a]),
             DeadChild(adopted, a, adopted[a], u)
      PROVE  SIGCHLD \in adopted[a].signal \/ (told /\ a = init)
  <2>1. tk[a] # NoTask /\ Asleep(tk[a]) /\ adopted[a].want = tk[a].want /\ adopted[a].signal = tk[a].signal
    BY ZenonT(60), <1>6, <1>7 DEF Asleep
  <2>2. tk[u] # NoTask /\ u # a /\ tk[u].state = "zombie" /\ adopted[u].father = a
        /\ (tk[a].want = -1 \/ u = tk[a].want)
    BY ZenonT(60), <1>6, <1>7, <2>1 DEF DeadChild
  <2>3. CASE adopted[u].father = tk[u].father
    BY ZenonT(60), <2>1, <2>2, <2>3 DEF DeadChild, WInv, Told
  <2>4. CASE u \in O /\ adopted[u].father = init
    BY ZenonT(60), <2>2, <2>4
  <2> QED
    BY ZenonT(60), <1>6, <2>3, <2>4
<1>8. CASE ~told
  <2>1. next = adopted
    BY ZenonT(60), <1>8
  <2>2. Told(adopted)
    BY ZenonT(60), <1>7, <1>8 DEF Told
  <2> HIDE DEF next
  <2>3. adopted[t] # NoTask /\ adopted[t].state = "run"
    BY ZenonT(60), <1>6, NoTaskIsNone
  <2> QED
    BY ZenonT(60), <1>2, <1>5, <2>1, <2>2, <2>3 DEF WInv, Table
<1>9. CASE told
  <2>1. next = send_sig(adopted, SIGCHLD, init, TRUE)
    BY ZenonT(60), <1>9
  <2>2. CASE adopted[init] = NoTask
    <3>1. next = adopted
      BY ZenonT(60), <2>1, <2>2 DEF send_sig
    <3>2. Told(adopted)
      BY ZenonT(60), <1>7, <2>2 DEF Told
    <3> HIDE DEF next
    <3>3. adopted[t] # NoTask /\ adopted[t].state = "run"
      BY ZenonT(60), <1>6, NoTaskIsNone
    <3> QED
      BY ZenonT(60), <1>2, <1>5, <3>1, <3>2, <3>3 DEF WInv, Table
  <2>3. CASE adopted[init] # NoTask
    <3> DEFINE r == [adopted[init] EXCEPT !.signal = @ \cup {SIGCHLD}]
    <3>1. IsTask(adopted[init])
      BY ZenonT(60), <1>1, <1>5, <2>3 DEF Table
    <3>2. IsTask(r) /\ r.state = adopted[init].state /\ r.father = adopted[init].father
          /\ r.pc = adopted[init].pc /\ r.want = adopted[init].want
      <4> DEFINE v == adopted[init].signal \cup {SIGCHLD}
      <4>1. r = [adopted[init] EXCEPT !.signal = v]
        BY ZenonT(60)
      <4> HIDE DEF v
      <4> QED
        BY ZenonT(60), <3>1, <4>1, SetSignal DEF Same
    <3>3. SIGCHLD \in r.signal
      BY ZenonT(60), <3>1 DEF IsTask, Fields
    <3>4. next = [adopted EXCEPT ![init] = r]
      BY ZenonT(60), <2>1, <2>3 DEF send_sig
    <3>5. DOMAIN next = Slot /\ next[init] = r /\ \A u \in Slot : u # init => next[u] = adopted[u]
      BY ZenonT(60), <1>1, <1>4, <3>4
    <3> HIDE DEF next, r
    <3>6. Table(next)
      BY ZenonT(60), <1>5, <3>2, <3>5 DEF Table
    <3>7. ASSUME NEW a \in Slot, NEW u \in Slot, next[a] # NoTask, Asleep(next[a]),
                 DeadChild(next, a, next[a], u)
          PROVE  SIGCHLD \in next[a].signal
      <4>1. CASE a = init
        BY ZenonT(60), <3>3, <3>5, <4>1
      <4>2. CASE a # init
        <5>1. next[a] = adopted[a]
          BY ZenonT(60), <3>5, <4>2
        <5>2. adopted[u] # NoTask /\ adopted[u].state = next[u].state /\ adopted[u].father = next[u].father
          BY ZenonT(60), <2>3, <3>2, <3>5, <3>7 DEF DeadChild
        <5>3. DeadChild(adopted, a, adopted[a], u)
          BY ZenonT(60), <3>7, <5>1, <5>2 DEF DeadChild
        <5> QED
          BY ZenonT(60), <1>7, <3>7, <4>2, <5>1, <5>3
      <4> QED
        BY ZenonT(60), <4>1, <4>2
    <3>8. next[t] # NoTask /\ next[t].state = "run"
      BY ZenonT(60), <1>6, <3>2, <3>5, NoTaskIsNone
    <3> QED
      BY ZenonT(60), <1>2, <3>6, <3>7, <3>8 DEF WInv, Told, Table
  <2> QED
    BY ZenonT(60), <2>2, <2>3
<1> QED
  BY ZenonT(60), <1>8, <1>9

\* A running task of the table.
Running(tk, t) == WInv(tk) /\ t \in Slot /\ IsTask(tk[t]) /\ tk[t].state = "run"

\* A running task's own record, changed and still running.
LEMMA RunningKeeps ==
    ASSUME NEW tk, NEW t, Running(tk, t), NEW r, IsTask(r), r.state = "run"
    PROVE  Running(Put(tk, t, r), t)
<1>1. Active(r) /\ WInv(tk) /\ t \in Slot
  BY ZenonT(60) DEF Active, Running
<1>2. WInv(Put(tk, t, r))
  BY ZenonT(60), <1>1, ActiveKeeps
<1>3. Put(tk, t, r)[t] = r
  BY SMTT(60), <1>1, PutAt
<1> QED
  BY ZenonT(60), <1>1, <1>2, <1>3 DEF Running

LEMMA PcKeeps ==
    ASSUME NEW tk, NEW t, Running(tk, t), NEW v
    PROVE  Running([tk EXCEPT ![t].pc = v], t)
<1> DEFINE r == [tk[t] EXCEPT !.pc = v]
<1>1. IsTask(r) /\ r.state = "run"
  BY ZenonT(60), SetPc DEF Running
<1>2. [tk EXCEPT ![t].pc = v] = Put(tk, t, r)
  BY ZenonT(60) DEF Put
<1> HIDE DEF r
<1>3. Running(Put(tk, t, r), t)
  BY ZenonT(60), <1>1, RunningKeeps
<1> QED
  BY ZenonT(60), <1>2, <1>3

LEMMA DoExitKeeps ==
    ASSUME Room, NEW tk, NEW t, Running(tk, t)
    PROVE  WInv(DoExit(tk, t))
<1>1. Running(Reparent(tk, t), t)
  BY ZenonT(60), ReparentKeeps DEF Running
<1> DEFINE rp == Reparent(tk, t)
<1> HIDE DEF rp
<1>2. Running([rp EXCEPT ![t].pc = "closing"], t)
  BY SMTT(60), <1>1, PcKeeps DEF rp
<1> QED
  BY ZenonT(60), <1>2 DEF DoExit, Running, rp

\* The rest of do_exit: the father is told, or there is none.
LEMMA ExitEndKeeps ==
    ASSUME NEW tk, NEW t, Running(tk, t)
    PROVE  WInv(ExitEnd(tk, t))
<1> DEFINE hup == IF tk[t].leader THEN kill_session(tk, t) ELSE tk
           r == [hup[t] EXCEPT !.state = "zombie"]
           z == [hup EXCEPT ![t].state = "zombie"]
           fa == z[t].father
<1>1. Running(hup, t)
  <2>1. Running(kill_session(tk, t), t)
    <3> DEFINE S == {u \in Tasks(tk) : tk[u].session = tk[t].session}
               all == SignalAll(tk, SIGHUP, S)
    <3>1. kill_session(tk, t) = all
      BY ZenonT(60) DEF kill_session
    <3> HIDE DEF S
    <3>2. /\ WInv(all)
          /\ \A u \in Slot : IsTask(tk[u]) => /\ IsTask(all[u]) /\ all[u].state = tk[u].state
                                              /\ all[u].father = tk[u].father
      BY SMTT(60), SignalAllKeeps DEF Running
    <3> HIDE DEF all
    <3> QED
      BY ZenonT(60), <3>1, <3>2 DEF Running
  <2> QED
    BY ZenonT(60), <2>1
<1>2. ExitEnd(tk, t) = tell_father(z, t)
  BY ZenonT(60) DEF ExitEnd
<1> HIDE DEF hup
<1>3. IsTask(r) /\ r.state = "zombie" /\ r.father = hup[t].father
  BY ZenonT(60), <1>1, SetState DEF Running
<1>4. /\ WInv(hup) /\ t \in Slot /\ DOMAIN z = Slot /\ z[t] = r
      /\ \A u \in Slot : u # t => z[u] = hup[u]
  BY ZenonT(60), <1>1 DEF Running, WInv, Table
<1>5. release(z, t) = Put(hup, t, NoTask)
  BY ZenonT(60), <1>1 DEF release, Put, Running, WInv, Table
<1> HIDE DEF r
<1>6. CASE fa \notin Tasks(z)
  <2>1. ExitEnd(tk, t) = Put(hup, t, NoTask)
    BY ZenonT(60), <1>2, <1>5, <1>6 DEF tell_father
  <2>2. Follows(hup[t], NoTask)
    BY ZenonT(60) DEF Follows
  <2> HIDE DEF z
  <2>3. WInv(Put(hup, t, NoTask))
    BY SMTT(60), <1>4, <2>2, TaskKeeps
  <2> QED
    BY ZenonT(60), <2>1, <2>3
<1>7. CASE fa \in Tasks(z)
  <2> DEFINE s == [z[fa] EXCEPT !.signal = @ \cup {SIGCHLD}]
             next == [z EXCEPT ![fa] = s]
  <2> HIDE DEF z
  <2>1. fa \in Slot /\ z[fa] # NoTask /\ IsTask(z[fa])
    BY ZenonT(60), <1>3, <1>4, <1>7 DEF Tasks, WInv, Table
  <2>2. ExitEnd(tk, t) = next
    BY ZenonT(60), <1>2, <1>7, <2>1 DEF tell_father, send_sig
  <2>3. IsTask(s) /\ s.state = z[fa].state /\ s.father = z[fa].father /\ s.pc = z[fa].pc /\ s.want = z[fa].want
        /\ s.signal = z[fa].signal \cup {SIGCHLD}
    <3> DEFINE v == z[fa].signal \cup {SIGCHLD}
    <3>1. s = [z[fa] EXCEPT !.signal = v]
      BY ZenonT(60)
    <3> HIDE DEF v, s
    <3>2. Same(s, z[fa]) /\ s.signal = v
      BY SMTT(60), <2>1, <3>1, SetSignal
    <3> QED
      BY ZenonT(60), <3>2 DEF v, Same
  <2>4. DOMAIN next = Slot /\ next[fa] = s /\ \A u \in Slot : u # fa => next[u] = z[u]
    BY ZenonT(60), <1>4, <2>1
  <2> HIDE DEF s, next
  <2>5. Table(next)
    BY ZenonT(60), <1>3, <1>4, <2>3, <2>4 DEF Table, WInv
  <2>6. ASSUME NEW a \in Slot, NEW u \in Slot, next[a] # NoTask, Asleep(next[a]),
               DeadChild(next, a, next[a], u)
        PROVE  SIGCHLD \in next[a].signal
    <3>1. CASE a = fa
      BY ZenonT(60), <2>3, <2>4, <3>1
    <3>2. CASE a # fa
      <4>1. a # t /\ next[a] = hup[a]
        BY ZenonT(60), <1>3, <1>4, <2>4, <2>6, <3>2 DEF Asleep
      <4>2. u # t
        BY ZenonT(60), <1>3, <2>3, <2>4, <2>6, <3>2 DEF DeadChild
      <4>3. hup[u] # NoTask /\ hup[u].state = next[u].state /\ hup[u].father = next[u].father
        BY ZenonT(60), <1>4, <2>1, <2>3, <2>4, <2>6, <4>2 DEF DeadChild
      <4>4. DeadChild(hup, a, hup[a], u)
        BY ZenonT(60), <2>6, <4>1, <4>3 DEF DeadChild
      <4> QED
        BY ZenonT(60), <1>4, <2>6, <4>1, <4>4 DEF WInv, Told
    <3> QED
      BY ZenonT(60), <3>1, <3>2
  <2> QED
    BY ZenonT(60), <2>2, <2>5, <2>6 DEF WInv, Told
<1> QED
  BY ZenonT(60), <1>6, <1>7

LEMMA DoSignalKeeps ==
    ASSUME Room, NEW tk, NEW t, Running(tk, t), NEW sig
    PROVE  WInv(do_signal(tk, t, sig))
<1> DEFINE sa == tk[t].sa[sig]
           v == [tk[t].sa EXCEPT ![sig].handler = IF sa.oneshot THEN "dfl" ELSE @]
           a == [tk[t] EXCEPT !.sa = v]
           b == a.blocked \cup sa.mask
           r == [a EXCEPT !.blocked = b]
           X == [tk EXCEPT ![t].sa[sig].handler = IF sa.oneshot THEN "dfl" ELSE @,
                           ![t].blocked = @ \cup sa.mask]
<1>1. do_signal(tk, t, sig) \in {tk, DoExit(tk, t), X}
  BY ZenonT(60) DEF do_signal
<1>2. X = Put(tk, t, r)
  BY ZenonT(60) DEF Put, Running, WInv, Table
<1> HIDE DEF v
<1>3. IsTask(a) /\ a.state = "run"
  BY ZenonT(60), SetSa DEF Running, Same
<1> HIDE DEF a, b
<1>4. IsTask(r) /\ r.state = "run"
  BY ZenonT(60), <1>3, SetBlocked DEF Same
<1> HIDE DEF r, X
<1>5. WInv(Put(tk, t, r))
  BY ZenonT(60), <1>4, RunningKeeps DEF Running
<1> QED
  BY ZenonT(60), <1>1, <1>2, <1>5, DoExitKeeps DEF Running

LEMMA RetKeeps ==
    ASSUME Room, NEW tk, NEW t, Running(tk, t)
    PROVE  WInv(ret_from_sys_call(tk, t))
<1> DEFINE back == [tk EXCEPT ![t].pc = "user"]
           due == tk[t].signal \ tk[t].blocked
           v == back[t].signal \ {Min(due)}
           r == [back[t] EXCEPT !.signal = v]
           off == [back EXCEPT ![t].signal = @ \ {Min(due)}]
<1>1. ret_from_sys_call(tk, t) \in {back, do_signal(off, t, Min(due))}
  BY ZenonT(60) DEF ret_from_sys_call
<1>2. off = Put(back, t, r)
  BY ZenonT(60) DEF Put
<1>3. Running(back, t)
  BY ZenonT(60), PcKeeps
<1> HIDE DEF back, v
<1>4. IsTask(r) /\ r.state = "run"
  BY ZenonT(60), <1>3, SetSignal DEF Running, Same
<1> HIDE DEF r, off
<1>5. Running(off, t)
  <2>1. Running(Put(back, t, r), t)
    BY ZenonT(60), <1>3, <1>4, RunningKeeps
  <2> QED
    BY ZenonT(60), <1>2, <2>1
<1>6. WInv(do_signal(off, t, Min(due)))
  BY ZenonT(60), <1>5, DoSignalKeeps
<1> HIDE DEF due
<1> QED
  BY ZenonT(60), <1>1, <1>3, <1>6 DEF Running

\* The scan of waitpid: a dead child is released, or there is none and the
\* caller falls asleep or returns.
LEMMA ScanKeeps ==
    ASSUME Room, NEW tk, NEW t, Running(tk, t), NEW pid \in Int, NEW nohang
    PROVE  WInv(Scan(tk, t, pid, nohang))
<1> DEFINE all == Wanted(tk, t, pid)
           dead == {u \in all : tk[u].state = "zombie"}
           A == [release(tk, Max(dead)) EXCEPT ![t].pc = "ret", ![t].want = 0]
           S == [tk EXCEPT ![t].state = "int", ![t].pc = "waitpid", ![t].want = pid]
           B == [tk EXCEPT ![t].pc = "ret", ![t].want = 0]
<1>1. \/ dead # {} /\ Scan(tk, t, pid, nohang) = A
      \/ dead = {} /\ Scan(tk, t, pid, nohang) = S
      \/ Scan(tk, t, pid, nohang) = B
  BY ZenonT(60) DEF Scan
<1>2. t \in Slot /\ IsTask(tk[t]) /\ DOMAIN tk = Slot /\ WInv(tk) /\ tk[t].state = "run"
  BY ZenonT(60) DEF Running, WInv, Table
<1>3. ASSUME NEW tb, Running(tb, t)
      PROVE  WInv([tb EXCEPT ![t].pc = "ret", ![t].want = 0])
  <2> DEFINE a == [tb[t] EXCEPT !.pc = "ret"]
             r == [a EXCEPT !.want = 0]
  <2>1. [tb EXCEPT ![t].pc = "ret", ![t].want = 0] = Put(tb, t, r)
    BY ZenonT(60), <1>3 DEF Put, Running, WInv, Table
  <2>2. IsTask(a) /\ a.state = "run"
    BY ZenonT(60), <1>3, SetPc DEF Running
  <2> HIDE DEF a
  <2>3. IsTask(r) /\ r.state = "run"
    <3>1. 0 \in Int
      BY SMTT(60)
    <3> QED
      BY ZenonT(60), <2>2, <3>1, SetWant
  <2> HIDE DEF r
  <2>4. Running(Put(tb, t, r), t)
    BY ZenonT(60), <1>3, <2>3, RunningKeeps
  <2> QED
    BY ZenonT(60), <2>1, <2>4 DEF Running
<1>4. ASSUME dead # {} PROVE WInv(A)
  <2> DEFINE m == Max(dead)
             rel == release(tk, m)
  <2>1. m \in Slot /\ m # t
    <3>1. dead \subseteq Slot /\ t \notin dead
      BY ZenonT(60) DEF Wanted, Tasks
    <3> HIDE DEF dead
    <3>2. m \in dead
      BY ZenonT(60), <1>4, <3>1, ChosenSlots
    <3> QED
      BY ZenonT(60), <3>1, <3>2
  <2> HIDE DEF m, dead
  <2>2. WInv(rel) /\ rel[t] = tk[t]
    BY ZenonT(60), <1>2, <2>1, ReleaseKeeps
  <2>3. Running(rel, t)
    BY ZenonT(60), <1>2, <2>2 DEF Running
  <2> HIDE DEF rel
  <2>4. WInv([rel EXCEPT ![t].pc = "ret", ![t].want = 0])
    BY ZenonT(60), <1>3, <2>3
  <2> QED
    BY ZenonT(60), <2>4 DEF rel, m
<1>5. WInv(B)
  BY ZenonT(60), <1>3
<1>6. ASSUME dead = {} PROVE WInv(S)
  <2> DEFINE a == [tk[t] EXCEPT !.state = "int"]
             b == [a EXCEPT !.pc = "waitpid"]
             r == [b EXCEPT !.want = pid]
  <2>1. S = [tk EXCEPT ![t] = r]
    BY ZenonT(60), <1>2
  <2>2. DOMAIN S = Slot /\ S[t] = r /\ \A u \in Slot : u # t => S[u] = tk[u]
    BY ZenonT(60), <1>2, <2>1
  <2> HIDE DEF S
  <2>3. IsTask(a) /\ a.state = "int"
    BY ZenonT(60), <1>2, SetState
  <2> HIDE DEF a
  <2>4. IsTask(b) /\ b.state = "int" /\ b.pc = "waitpid"
    BY ZenonT(60), <2>3, SetPc
  <2> HIDE DEF b
  <2>5. IsTask(r) /\ r.state = "int" /\ r.want = pid
    BY ZenonT(60), <2>4, SetWant
  <2> HIDE DEF r
  <2>6. Table(S)
    BY ZenonT(60), <1>2, <2>2, <2>5 DEF Table, WInv
  <2>7. ASSUME NEW x \in Slot, NEW u \in Slot, S[x] # NoTask, Asleep(S[x]), DeadChild(S, x, S[x], u)
        PROVE  SIGCHLD \in S[x].signal
    <3>1. u # t /\ S[u] = tk[u] /\ tk[u].state = "zombie" /\ tk[u] # NoTask /\ tk[u].father = x /\ u # x
      BY ZenonT(60), <2>2, <2>5, <2>7 DEF DeadChild
    <3>2. CASE x = t
      <4>1. pid = -1 \/ (pid > 0 /\ u = pid)
        BY SMTT(60), <2>2, <2>5, <2>7, <3>2 DEF Asleep, DeadChild
      <4>2. u \in all
        <5>1. CASE pid = -1
          <6>1. ~(pid > 0) /\ pid # 0
            BY SMTT(60), <5>1
          <6> QED
            BY ZenonT(60), <3>1, <3>2, <5>1, <6>1 DEF Wanted, Tasks
        <5>2. CASE pid > 0 /\ u = pid
          <6>1. pid # 0 /\ pid # -1
            BY SMTT(60), <5>2
          <6> QED
            BY ZenonT(60), <3>1, <3>2, <5>2, <6>1 DEF Wanted, Tasks
        <5> QED
          BY ZenonT(60), <4>1, <5>1, <5>2
      <4> QED
        BY ZenonT(60), <1>6, <3>1, <4>2
    <3>3. CASE x # t
      <4>1. S[x] = tk[x]
        BY ZenonT(60), <2>2, <3>3
      <4>2. DeadChild(tk, x, tk[x], u)
        BY ZenonT(60), <2>7, <3>1, <4>1 DEF DeadChild
      <4> QED
        BY ZenonT(60), <1>2, <2>7, <4>1, <4>2 DEF WInv, Told
    <3> QED
      BY ZenonT(60), <3>2, <3>3
  <2> QED
    BY ZenonT(60), <2>6, <2>7 DEF WInv, Told
<1> HIDE DEF dead, A, S, B
<1> QED
  BY ZenonT(60), <1>1, <1>4, <1>5, <1>6
-----------------------------------------------------------------------------
\* The steps.

LEMMA ReadyRuns == ASSUME WInv(task), NEW t, Ready(t) PROVE Running(task, t)
  BY ZenonT(60) DEF Ready, Alive, Tasks, Running, WInv, Table

LEMMA ReturnsKeeps ==
    ASSUME NEW t, NEW tk, Running(tk, t), Returns(t, tk)
    PROVE  WInv(task)'
<1>1. Running([tk EXCEPT ![t].pc = "ret"], t)
  BY ZenonT(60), PcKeeps
<1>2. WInv(task')
  BY ZenonT(60), <1>1 DEF Returns, Running
<1> QED
  BY ZenonT(60), <1>2 DEF WInv, Table, Told, Asleep, DeadChild

LEMMA InitWInv == ASSUME Init PROVE WInv(task)
<1>1. task = [t \in Slot |-> IF t = init THEN FirstTask ELSE NoTask]
  BY ZenonT(60) DEF Init
<1>2. IsTask(FirstTask) /\ FirstTask.state = "run"
  <2>1. 0 \in Int
    BY SMTT(60)
  <2>2. DOMAIN FirstTask = Fields /\ FirstTask.state = "run" /\ FirstTask.want = 0
    BY SMTT(60) DEF FirstTask, Fields
  <2> QED
    BY ZenonT(60), <2>1, <2>2 DEF IsTask
<1>3. DOMAIN task = Slot /\ \A t \in Slot : task[t] = FirstTask \/ task[t] = NoTask
  BY ZenonT(60), <1>1
<1>4. \A t \in Slot : task[t] # NoTask => task[t].state # "zombie"
  BY ZenonT(60), <1>2, <1>3
<1> QED
  BY ZenonT(60), <1>2, <1>3, <1>4 DEF WInv, Table, Told, DeadChild

\* A call by which a running task changes a field of its own, and returns.
LEMMA OwnReturns ==
    ASSUME NEW t, Running(task, t), NEW r, IsTask(r), r.state = "run", Returns(t, Put(task, t, r))
    PROVE  WInv(task)'
<1>1. Running(Put(task, t, r), t)
  BY ZenonT(60), RunningKeeps
<1> QED
  BY ZenonT(60), <1>1, ReturnsKeeps

LEMMA ForkKeeps ==
    ASSUME Room, WInv(task), NEW t, Ready(t),
           Returns(t, IF Free(task) = {} THEN task ELSE copy_process(task, t))
    PROVE  WInv(task)'
<1>1. Running(task, t)
  BY ZenonT(60), ReadyRuns
<1>2. CASE Free(task) = {}
  <2>1. Returns(t, task)
    BY ZenonT(60), <1>2
  <2> QED
    BY ZenonT(60), <1>1, <2>1, ReturnsKeeps
<1>3. CASE Free(task) # {}
  <2>1. Returns(t, copy_process(task, t))
    BY ZenonT(60), <1>3
  <2>2. WInv(copy_process(task, t)) /\ copy_process(task, t)[t] = task[t]
    BY ZenonT(60), <1>1, <1>3, CopyKeeps DEF Running
  <2>3. Running(copy_process(task, t), t)
    BY ZenonT(60), <1>1, <2>2 DEF Running
  <2> QED
    BY ZenonT(60), <2>1, <2>3, ReturnsKeeps
<1> QED
  BY ZenonT(60), <1>2, <1>3

\* The invariant is of the table only.
LEMMA Primed == ASSUME WInv(task') PROVE WInv(task)'
  BY ZenonT(60) DEF WInv, Table, Told, Asleep, DeadChild

LEMMA KillKeeps == ASSUME WInv(task), NEW t, Kill(t) PROVE WInv(task)'
<1>1. Running(task, t)
  BY ZenonT(60), ReadyRuns DEF Kill, May, InUser
<1>2. \E sig, S : Returns(t, SignalAll(task, sig, S))
  BY ZenonT(60) DEF Kill
<1>3. PICK sig, S : Returns(t, SignalAll(task, sig, S))
  BY ZenonT(60), <1>2
<1> DEFINE all == SignalAll(task, sig, S)
<1>4. /\ WInv(all)
      /\ \A u \in Slot : IsTask(task[u]) => /\ IsTask(all[u]) /\ all[u].state = task[u].state
                                            /\ all[u].father = task[u].father
  BY SMTT(60), SignalAllKeeps
<1> HIDE DEF all
<1>5. Running(all, t)
  BY ZenonT(60), <1>1, <1>4 DEF Running
<1>6. Returns(t, all)
  BY ZenonT(60), <1>3 DEF all
<1> QED
  BY ZenonT(60), <1>5, <1>6, ReturnsKeeps

LEMMA SsetmaskKeeps == ASSUME WInv(task), NEW t, Ssetmask(t) PROVE WInv(task)'
<1>1. Running(task, t)
  BY ZenonT(60), ReadyRuns DEF Ssetmask, May, InUser
<1>2. PICK mask : Returns(t, [task EXCEPT ![t].blocked = mask \ {SIGKILL}])
  BY ZenonT(60) DEF Ssetmask
<1> DEFINE v == mask \ {SIGKILL}
           r == [task[t] EXCEPT !.blocked = v]
<1>3. Returns(t, Put(task, t, r))
  BY ZenonT(60), <1>2 DEF Put
<1> HIDE DEF v
<1>4. IsTask(r) /\ r.state = "run"
  BY ZenonT(60), <1>1, SetBlocked DEF Running, Same
<1> HIDE DEF r
<1> QED
  BY ZenonT(60), <1>1, <1>3, <1>4, OwnReturns

LEMMA SigactionKeeps == ASSUME WInv(task), NEW t, Sigaction(t) PROVE WInv(task)'
<1>1. Running(task, t)
  BY ZenonT(60), ReadyRuns DEF Sigaction, May, InUser
<1>2. \E sig, x : Returns(t, [task EXCEPT ![t].sa[sig] = x])
  BY ZenonT(60) DEF Sigaction
<1>3. PICK sig, x : Returns(t, [task EXCEPT ![t].sa[sig] = x])
  BY ZenonT(60), <1>2
<1> DEFINE v == [task[t].sa EXCEPT ![sig] = x]
           r == [task[t] EXCEPT !.sa = v]
<1>4. Returns(t, Put(task, t, r))
  BY ZenonT(60), <1>3 DEF Put
<1> HIDE DEF v
<1>5. IsTask(r) /\ r.state = "run"
  BY ZenonT(60), <1>1, SetSa DEF Running, Same
<1> HIDE DEF r
<1> QED
  BY ZenonT(60), <1>1, <1>4, <1>5, OwnReturns

LEMMA SetsidKeeps == ASSUME WInv(task), NEW t, Setsid(t) PROVE WInv(task)'
<1>1. Running(task, t)
  BY ZenonT(60), ReadyRuns DEF Setsid, May, InUser
<1>2. Returns(t, [task EXCEPT ![t].leader = TRUE, ![t].session = t, ![t].pgrp = t])
  BY ZenonT(60) DEF Setsid
<1> DEFINE a == [task[t] EXCEPT !.leader = TRUE]
           b == [a EXCEPT !.session = t]
           r == [b EXCEPT !.pgrp = t]
<1>3. Returns(t, Put(task, t, r))
  <2>1. [task EXCEPT ![t].leader = TRUE, ![t].session = t, ![t].pgrp = t] = Put(task, t, r)
    BY ZenonT(60), <1>1 DEF Put, Running, WInv, Table
  <2> QED
    BY ZenonT(60), <1>2, <2>1
<1>4. IsTask(a) /\ a.state = "run"
  BY ZenonT(60), <1>1, SetLeader DEF Running, Same
<1> HIDE DEF a
<1>5. IsTask(b) /\ b.state = "run"
  BY ZenonT(60), <1>4, SetSession DEF Same
<1> HIDE DEF b
<1>6. IsTask(r) /\ r.state = "run"
  BY ZenonT(60), <1>5, SetPgrp DEF Same
<1> HIDE DEF r
<1> QED
  BY ZenonT(60), <1>1, <1>3, <1>6, OwnReturns

\* setpgid may be called for another task, also for one asleep.
LEMMA SetpgidKeeps == ASSUME WInv(task), NEW t, Setpgid(t) PROVE WInv(task)'
<1>1. Running(task, t)
  BY ZenonT(60), ReadyRuns DEF Setpgid, May, InUser
<1>2. PICK u, pgid : u \in Tasks(task) /\ Returns(t, [task EXCEPT ![u].pgrp = pgid])
  BY ZenonT(60) DEF Setpgid
<1> DEFINE r == [task[u] EXCEPT !.pgrp = pgid]
           next == Put(task, u, r)
<1>3. u \in Slot /\ task[u] # NoTask /\ IsTask(task[u])
  BY ZenonT(60), <1>2 DEF Tasks, WInv, Table
<1>4. Returns(t, next)
  BY ZenonT(60), <1>2 DEF Put
<1>5. Same(r, task[u]) /\ r.signal = task[u].signal
  BY ZenonT(60), <1>3, SetPgrp
<1> HIDE DEF r
<1>6. IsTask(r) /\ Follows(task[u], r)
  BY ZenonT(60), <1>3, <1>5 DEF Same, Follows, Asleep
<1>7. WInv(next)
  BY ZenonT(60), <1>3, <1>6, TaskKeeps
<1>8. next[u] = r /\ \A x \in Slot : x # u => next[x] = task[x]
  BY SMTT(60), <1>3, PutAt
<1> HIDE DEF next
<1>9. Running(next, t)
  BY ZenonT(60), <1>1, <1>5, <1>7, <1>8 DEF Running, Same
<1> QED
  BY ZenonT(60), <1>4, <1>9, ReturnsKeeps

LEMMA PauseKeeps == ASSUME WInv(task), NEW t, Pause(t) PROVE WInv(task)'
<1>1. Running(task, t)
  BY ZenonT(60), ReadyRuns DEF Pause, May, InUser
<1> DEFINE a == [task[t] EXCEPT !.state = "int"]
           r == [a EXCEPT !.pc = "ret"]
<1>2. task' = Put(task, t, r)
  <2>1. [task EXCEPT ![t].state = "int", ![t].pc = "ret"] = Put(task, t, r)
    BY ZenonT(60), <1>1 DEF Put, Running, WInv, Table
  <2> QED
    BY ZenonT(60), <2>1 DEF Pause
<1>3. IsTask(a) /\ a.state = "int"
  BY ZenonT(60), <1>1, SetState DEF Running
<1> HIDE DEF a
<1>4. IsTask(r) /\ r.state = "int" /\ r.pc = "ret"
  BY ZenonT(60), <1>3, SetPc
<1> HIDE DEF r
<1>5. Active(r)
  BY ZenonT(60), <1>4 DEF Active
<1>6. WInv(Put(task, t, r))
  BY ZenonT(60), <1>1, <1>5, ActiveKeeps DEF Running
<1> QED
  BY ZenonT(60), <1>2, <1>6, Primed

LEMMA WakeKeeps == ASSUME WInv(task), NEW t, Wake(t) PROVE WInv(task)'
<1>1. t \in Slot /\ IsTask(task[t])
  BY ZenonT(60) DEF Wake, Tasks, WInv, Table
<1> DEFINE r == [task[t] EXCEPT !.state = "run"]
<1>2. task' = Put(task, t, r)
  BY ZenonT(60) DEF Wake, Put
<1>3. IsTask(r) /\ r.state = "run"
  BY ZenonT(60), <1>1, SetState
<1> HIDE DEF r
<1>4. Active(r)
  BY ZenonT(60), <1>3 DEF Active
<1>5. WInv(Put(task, t, r))
  BY ZenonT(60), <1>1, <1>4, ActiveKeeps
<1> QED
  BY ZenonT(60), <1>2, <1>5, Primed

LEMMA WaitpidKeeps == ASSUME Room, WInv(task), NEW t, Waitpid(t) PROVE WInv(task)'
<1>1. Running(task, t)
  BY ZenonT(60), ReadyRuns DEF Waitpid, May, InUser
<1>2. PICK pid \in {-1, 0} \cup (Slot \ {init}) \cup {-g : g \in Slot \ {init}}, nohang \in BOOLEAN :
          task' = Scan(task, t, pid, nohang)
  BY ZenonT(60) DEF Waitpid
<1>3. pid \in Int
  <2>1. Slot \subseteq Int /\ -1 \in Int /\ 0 \in Int
    BY SMTT(60) DEF Slot, Room
  <2>2. \A g \in Slot : -g \in Int
    BY SMTT(60), <2>1
  <2> QED
    BY ZenonT(60), <2>1, <2>2
<1>4. WInv(Scan(task, t, pid, nohang))
  BY ZenonT(60), <1>1, <1>3, ScanKeeps
<1> QED
  BY ZenonT(60), <1>2, <1>4, Primed

LEMMA WokenKeeps == ASSUME Room, WInv(task), NEW t, WaitpidWoken(t) PROVE WInv(task)'
<1>1. Running(task, t)
  BY ZenonT(60), ReadyRuns DEF WaitpidWoken
<1> DEFINE v == task[t].signal \ {SIGCHLD}
           a == [task[t] EXCEPT !.signal = v]
           woken == [task EXCEPT ![t].signal = @ \ {SIGCHLD}]
           b == [woken[t] EXCEPT !.pc = "ret"]
           r == [b EXCEPT !.want = 0]
           R == [woken EXCEPT ![t].pc = "ret", ![t].want = 0]
<1>2. task' \in {Scan(woken, t, task[t].want, FALSE), R}
  BY ZenonT(60) DEF WaitpidWoken
<1>3. woken = Put(task, t, a)
  BY ZenonT(60) DEF Put
<1>4. R = Put(woken, t, r)
  BY ZenonT(60), <1>1 DEF Put, Running, WInv, Table
<1> HIDE DEF v, woken, R
<1>5. IsTask(a) /\ a.state = "run"
  BY ZenonT(60), <1>1, SetSignal DEF Running, Same
<1> HIDE DEF a
<1>6. Running(woken, t)
  <2>1. Running(Put(task, t, a), t)
    BY ZenonT(60), <1>1, <1>5, RunningKeeps
  <2> QED
    BY ZenonT(60), <1>3, <2>1
<1>7. task[t].want \in Int
  BY ZenonT(60), <1>1 DEF Running, IsTask
<1>8. WInv(Scan(woken, t, task[t].want, FALSE))
  BY ZenonT(60), <1>6, <1>7, ScanKeeps
<1>9. WInv(R)
  <2>1. IsTask(b) /\ b.state = "run"
    BY ZenonT(60), <1>6, SetPc DEF Running
  <2> HIDE DEF b
  <2>2. 0 \in Int
    BY SMTT(60)
  <2>3. IsTask(r) /\ r.state = "run"
    BY ZenonT(60), <2>1, <2>2, SetWant
  <2> HIDE DEF r
  <2>4. Running(Put(woken, t, r), t)
    BY ZenonT(60), <1>6, <2>3, RunningKeeps
  <2> QED
    BY ZenonT(60), <1>4, <2>4 DEF Running
<1>10. WInv(task')
  BY ZenonT(60), <1>2, <1>8, <1>9
<1> QED
  BY ZenonT(60), <1>10, Primed

LEMMA NextWInv == ASSUME Room, WInv(task), [Next]_vars PROVE WInv(task)'
<1>1. ASSUME NEW t, Exit(t) PROVE WInv(task)'
  <2>1. Running(task, t)
    BY ZenonT(60), <1>1, ReadyRuns DEF Exit, May, InUser
  <2>2. WInv(DoExit(task, t))
    BY ZenonT(60), <2>1, DoExitKeeps
  <2> QED
    BY ZenonT(60), <1>1, <2>2, Primed DEF Exit
<1>2. ASSUME NEW t, Closed(t) PROVE WInv(task)'
  <2>1. Running(task, t)
    BY ZenonT(60), <1>2, ReadyRuns DEF Closed
  <2>2. WInv(ExitEnd(task, t))
    BY ZenonT(60), <2>1, ExitEndKeeps
  <2> QED
    BY ZenonT(60), <1>2, <2>2, Primed DEF Closed
<1>3. ASSUME NEW t, Ret(t) PROVE WInv(task)'
  <2>1. Running(task, t)
    BY ZenonT(60), <1>3, ReadyRuns DEF Ret
  <2>2. WInv(ret_from_sys_call(task, t))
    BY ZenonT(60), <2>1, RetKeeps
  <2> QED
    BY ZenonT(60), <1>3, <2>2, Primed DEF Ret
<1>4. ASSUME InitLoop PROVE WInv(task)'
  <2>1. Ready(init) /\ Running(task, init)
    BY ZenonT(60), <1>4, ReadyRuns DEF InitLoop, InitFork, InitWait, InUser
  <2>2. CASE InitFork
    <3>1. Returns(init, IF Free(task) = {} THEN task ELSE copy_process(task, init))
      BY ZenonT(60), <2>2 DEF InitFork
    <3> QED
      BY ZenonT(60), <2>1, <3>1, ForkKeeps
  <2>3. CASE InitWait
    <3>1. -1 \in Int
      BY SMTT(60)
    <3>2. WInv(Scan(task, init, -1, FALSE))
      BY ZenonT(60), <2>1, <3>1, ScanKeeps
    <3> QED
      BY ZenonT(60), <2>3, <3>2, Primed DEF InitWait
  <2> QED
    BY ZenonT(60), <1>4, <2>2, <2>3 DEF InitLoop
<1>5. ASSUME NEW t, Fork(t) PROVE WInv(task)'
  BY ZenonT(60), <1>5, ForkKeeps DEF Fork, May, InUser
<1>6. CASE UNCHANGED vars
  BY ZenonT(60), <1>6, Primed DEF vars
<1>7. ASSUME NEW t, Kernel(t) PROVE WInv(task)'
  BY ZenonT(60), <1>2, <1>3, <1>7, WokenKeeps, WakeKeeps DEF Kernel
<1>8. ASSUME NEW t, Program(t) PROVE WInv(task)'
  BY ZenonT(60), <1>1, <1>5, <1>8, WaitpidKeeps, PauseKeeps, KillKeeps, SsetmaskKeeps,
     SigactionKeeps, SetpgidKeeps, SetsidKeeps DEF Program
<1> QED
  BY ZenonT(60), <1>4, <1>6, <1>7, <1>8 DEF Next

LEMMA ToldWaiters == ASSUME WInv(task) PROVE WaiterIsTold
<1> SUFFICES ASSUME NEW t \in Tasks(task), task[t].state = "int", task[t].pc = "waitpid",
                    task[t].want >= -1, task[t].want # 0,
                    NEW u \in Wanted(task, t, task[t].want), task[u].state = "zombie"
             PROVE  SIGCHLD \in task[t].signal
  BY ZenonT(60) DEF WaiterIsTold
<1>1. t \in Slot /\ task[t] # NoTask /\ task[t].want \in Int
  BY ZenonT(60) DEF Tasks, WInv, Table, IsTask
<1>2. task[t].want = -1 \/ task[t].want > 0
  BY SMTT(60), <1>1
<1>3. u \in Slot /\ task[u] # NoTask /\ u # t /\ task[u].father = t
  BY ZenonT(60) DEF Wanted, Tasks
<1>4. task[t].want > 0 => u = task[t].want
  <2>1. task[t].want > 0 => task[t].want # 0 /\ task[t].want # -1
    BY SMTT(60), <1>1
  <2> QED
    BY ZenonT(60), <2>1 DEF Wanted
<1> QED
  BY ZenonT(60), <1>1, <1>2, <1>3, <1>4 DEF WInv, Told, Asleep, DeadChild

\* Whatever other tasks do between the scan of sys_waitpid and its schedule() and
\* while it sleeps - exit, leave their children to init, signal, change groups,
\* fork into slots that were released - the sleeper has SIGCHLD pending as soon as
\* a child it waits for is dead, so that it wakes up.
THEOREM WaiterIsToldHolds == ASSUME Room PROVE Spec => []WaiterIsTold
<1>1. Init => WInv(task)
  BY ZenonT(60), InitWInv
<1>2. WInv(task) /\ [Next]_vars => WInv(task)'
  BY ZenonT(60), NextWInv
<1>3. WInv(task) => WaiterIsTold
  BY ZenonT(60), ToldWaiters
<1> QED
  BY <1>1, <1>2, <1>3, PTL DEF Spec
-----------------------------------------------------------------------------
\* The scheduler, for any number of tasks and any priorities.
CONSTANTS NR, Priority, MaxPriority, MaxAlarm, Alarmed, Niced
VARIABLES current, state, counter, priority, mode, signal, alarm
S == INSTANCE Scheduler

Bounds ==
    /\ NR \in Nat \ {0}
    /\ MaxPriority \in Nat /\ Priority \in 1..MaxPriority
    /\ MaxAlarm \in Nat

\* TypeOK gives CounterBound the priorities' bound, CounterBound is inductive
\* with it, and CurrentCanRun needs the states to be typed.
SInv == Bounds /\ S!TypeOK /\ S!CounterBound /\ S!CurrentCanRun

\* Halving a counter below 2p and adding at most p stays below 2p.
LEMMA RechargeBound ==
    ASSUME Bounds, NEW ct \in [0..NR -> Nat], \A t \in 0..NR : ct[t] < 2 * MaxPriority,
           priority \in [S!Tasks -> 1..MaxPriority]
    PROVE  /\ S!Recharge(ct) \in [0..NR -> Nat]
           /\ \A t \in 0..NR : S!Recharge(ct)[t] < 2 * MaxPriority
<1>1. ASSUME NEW t \in 0..NR
      PROVE  S!Recharge(ct)[t] \in Nat /\ S!Recharge(ct)[t] < 2 * MaxPriority
  <2>1. CASE t = 0
    BY SMTT(60), <2>1 DEF Bounds, S!Recharge
  <2>2. CASE t # 0
    <3>1. t \in S!Tasks /\ priority[t] \in 1..MaxPriority
      BY SMTT(60), <2>2 DEF Bounds, S!Tasks
    <3>2. ct[t] \div 2 \in Nat /\ ct[t] \div 2 < MaxPriority
      BY SMTT(60) DEF Bounds
    <3> QED
      BY SMTT(60), <2>2, <3>1, <3>2 DEF Bounds, S!Recharge
  <2> QED
    BY SMTT(60), <2>1, <2>2
<1> QED
  BY SMTT(60), <1>1 DEF S!Recharge

\* schedule() keeps the invariant from any typed states, counters and alarms.
LEMMA ScheduleSInv ==
    ASSUME Bounds, NEW st \in [S!Tasks -> {S!RUNNING, S!INTERRUPTIBLE, S!UNINTERRUPTIBLE}],
           NEW ct \in [0..NR -> Nat], \A t \in 0..NR : ct[t] < 2 * MaxPriority,
           NEW al \in [S!Tasks -> -2..MaxAlarm],
           S!TypeOK, S!Schedule(st, ct, al)
    PROVE  /\ current' \in 0..NR
           /\ state' \in [S!Tasks -> {S!RUNNING, S!INTERRUPTIBLE, S!UNINTERRUPTIBLE}]
           /\ counter' \in [0..NR -> Nat]
           /\ signal' \subseteq S!Tasks
           /\ alarm' \in [S!Tasks -> -2..MaxAlarm]
           /\ S!CounterBound'
           /\ S!CurrentCanRun'
<1> DEFINE sig == signal \cup S!Expired(al)
           st2 == [t \in S!Tasks |-> IF t \in sig /\ st[t] = S!INTERRUPTIBLE
                                   THEN S!RUNNING ELSE st[t]]
           run == {t \in S!Tasks : st2[t] = S!RUNNING}
           ct2 == IF run # {} /\ \A t \in run : ct[t] = 0 THEN S!Recharge(ct) ELSE ct
<1>1. /\ state' = st2
      /\ counter' = ct2
      /\ signal' = sig
      /\ alarm' = [t \in S!Tasks |-> IF al[t] = -1 THEN S!NoAlarm ELSE al[t]]
      /\ current' \in S!Best(run, ct2)
  BY SMTT(60) DEF S!Schedule
<1>2. current' = 0 \/ current' \in run
  BY SMTT(60), <1>1 DEF S!Best
<1>3. ct2 \in [0..NR -> Nat] /\ \A t \in 0..NR : ct2[t] < 2 * MaxPriority
  BY ZenonT(60), RechargeBound DEF S!TypeOK
<1>4. current' \in 0..NR
  BY SMTT(60), <1>2 DEF Bounds, S!Tasks
<1>5. st2 \in [S!Tasks -> {S!RUNNING, S!INTERRUPTIBLE, S!UNINTERRUPTIBLE}]
  OBVIOUS
<1>6. signal' \subseteq S!Tasks
  BY SMTT(60), <1>1 DEF S!TypeOK, S!Expired
<1>7. alarm' \in [S!Tasks -> -2..MaxAlarm]
  BY SMTT(60), <1>1 DEF Bounds, S!NoAlarm
<1>8. S!CurrentCanRun'
  BY SMTT(60), <1>1, <1>2 DEF S!CurrentCanRun
<1>9. S!CounterBound'
  BY ZenonT(60), <1>1, <1>3 DEF S!CounterBound
<1> QED
  BY ZenonT(60), <1>1, <1>3, <1>4, <1>5, <1>6, <1>7, <1>8, <1>9

LEMMA InitSInv == ASSUME Bounds PROVE S!Init => SInv
  BY SMTT(60)
     DEF Bounds, S!Init, SInv, S!TypeOK, S!CounterBound, S!CurrentCanRun, S!NoAlarm, S!Tasks

LEMMA NextSInv == SInv /\ [S!Next]_(S!vars) => SInv'
<1> SUFFICES ASSUME SInv, [S!Next]_(S!vars) PROVE SInv'
  OBVIOUS
<1> USE DEF Bounds
<1>1. CASE S!Tick
  <2> DEFINE al == [t \in S!Tasks |-> IF alarm[t] >= 0 THEN alarm[t] - 1 ELSE alarm[t]]
             left == IF counter[current] > 0 THEN counter[current] - 1 ELSE 0
             ct == [counter EXCEPT ![current] = left]
             kernel == current # 0 /\ mode[current] # "user"
  <2>1. al \in [S!Tasks -> -2..MaxAlarm]
    BY SMTT(60) DEF SInv, S!TypeOK
  <2>2. left \in Nat /\ left <= counter[current]
    BY SMTT(60) DEF SInv, S!TypeOK
  <2>3. ct \in [0..NR -> Nat] /\ \A t \in 0..NR : ct[t] < 2 * MaxPriority
    BY SMTT(60), <2>2 DEF SInv, S!TypeOK, S!CounterBound
  <2>4. /\ priority' = priority
        /\ mode' = IF current = 0 \/ kernel
                   THEN mode ELSE [mode EXCEPT ![current] = "ret"]
        /\ \/ counter' = ct /\ alarm' = al /\ UNCHANGED <<current, state, signal>>
           \/ S!Schedule(state, ct, al)
    BY SMTT(60), <1>1 DEF S!Tick
  <2>5. mode' \in [S!Tasks -> {"user", "kernel", "ret"}]
    BY ZenonT(60), <2>4 DEF SInv, S!TypeOK
  <2>6. CASE counter' = ct /\ alarm' = al /\ UNCHANGED <<current, state, signal>>
    BY SMTT(60), <2>1, <2>3, <2>4, <2>5, <2>6 DEF SInv, S!TypeOK, S!CounterBound, S!CurrentCanRun
  <2>7. CASE S!Schedule(state, ct, al)
    <3> HIDE DEF al, ct
    <3> QED
      BY ZenonT(60), <2>1, <2>3, <2>4, <2>5, <2>7, ScheduleSInv DEF SInv, S!TypeOK
  <2> QED
    BY SMTT(60), <2>4, <2>6, <2>7
<1>2. CASE S!IdlePause
  BY ZenonT(60), <1>2, ScheduleSInv DEF S!IdlePause, SInv, S!TypeOK, S!CounterBound
<1>3. ASSUME NEW t \in S!Tasks, S!EnterKernel(t) PROVE SInv'
  BY ZenonT(60), <1>3 DEF S!EnterKernel, SInv, S!TypeOK, S!CounterBound, S!CurrentCanRun
<1>4. ASSUME NEW t \in S!Tasks, NEW how \in {S!INTERRUPTIBLE, S!UNINTERRUPTIBLE},
             S!Sleep(t, how)
      PROVE  SInv'
  <2>1. [state EXCEPT ![t] = how]
            \in [S!Tasks -> {S!RUNNING, S!INTERRUPTIBLE, S!UNINTERRUPTIBLE}]
    BY SMTT(60) DEF SInv, S!TypeOK
  <2> QED
    BY ZenonT(60), <1>4, <2>1, ScheduleSInv DEF S!Sleep, SInv, S!TypeOK, S!CounterBound
<1>5. ASSUME NEW t \in S!Tasks, S!LeaveKernel(t) PROVE SInv'
  <2>1. mode' \in [S!Tasks -> {"user", "kernel", "ret"}] /\ priority' = priority
    BY SMTT(60), <1>5 DEF S!LeaveKernel, SInv, S!TypeOK
  <2>2. CASE counter[t] = 0
    BY ZenonT(60), <1>5, <2>1, <2>2, ScheduleSInv DEF S!LeaveKernel, SInv, S!TypeOK, S!CounterBound
  <2>3. CASE counter[t] # 0
    BY ZenonT(60), <1>5, <2>1, <2>3 DEF S!LeaveKernel, SInv, S!TypeOK, S!CounterBound, S!CurrentCanRun
  <2> QED
    BY SMTT(60), <2>2, <2>3
<1>6. ASSUME NEW t \in S!Tasks, S!RetFromSysCall(t) PROVE SInv'
  BY ZenonT(60), <1>6 DEF S!RetFromSysCall, SInv, S!TypeOK, S!CounterBound, S!CurrentCanRun
<1>7. ASSUME NEW t \in S!Tasks, NEW ticks \in 0..MaxAlarm, S!SysAlarm(t, ticks)
      PROVE  SInv'
  BY SMTT(60), <1>7 DEF S!SysAlarm, SInv, S!TypeOK, S!CounterBound, S!CurrentCanRun, S!NoAlarm
<1>8. ASSUME NEW t \in S!Tasks, NEW increment \in {-1, 1}, S!SysNice(t, increment)
      PROVE  SInv'
  <2>1. priority[t] - increment \in 1..MaxPriority
    BY SMTT(60), <1>8 DEF S!SysNice, SInv, S!TypeOK
  <2> QED
    BY ZenonT(60), <1>8, <2>1 DEF S!SysNice, SInv, S!TypeOK, S!CounterBound, S!CurrentCanRun
<1>9. ASSUME NEW t \in S!Tasks, S!PostSignal(t) PROVE SInv'
  BY SMTT(60), <1>9 DEF S!PostSignal, SInv, S!TypeOK, S!CounterBound, S!CurrentCanRun
<1>10. ASSUME NEW t \in S!Tasks, S!WakeUp(t) PROVE SInv'
  BY SMTT(60), <1>10 DEF S!WakeUp, SInv, S!TypeOK, S!CounterBound, S!CurrentCanRun
<1>11. CASE UNCHANGED S!vars
  BY SMTT(60), <1>11 DEF S!vars, SInv, S!TypeOK, S!CounterBound, S!CurrentCanRun
<1> QED
  BY SMTT(60), <1>1, <1>2, <1>3, <1>4, <1>5, <1>6, <1>7, <1>8, <1>9, <1>10, <1>11 DEF S!Next

\* Every state of the scheduler is typed, for any number of tasks.
THEOREM SchedulerTyped == ASSUME Bounds PROVE S!Spec => []S!TypeOK
<1>1. SInv => S!TypeOK
  BY SMTT(60) DEF SInv
<1>2. S!Init => SInv
  BY ZenonT(60), InitSInv
<1> QED
  BY <1>1, <1>2, NextSInv, PTL DEF S!Spec

\* counter < 2 * MaxPriority for every task at all times (sched.c:136-139).
THEOREM CounterBoundHolds == ASSUME Bounds PROVE S!Spec => []S!CounterBound
<1>1. SInv => S!CounterBound
  BY SMTT(60) DEF SInv
<1>2. S!Init => SInv
  BY ZenonT(60), InitSInv
<1> QED
  BY <1>1, <1>2, NextSInv, PTL DEF S!Spec

\* schedule() only switches to a task in TASK_RUNNING (sched.c:129-133).
THEOREM CurrentCanRunHolds == ASSUME Bounds PROVE S!Spec => []S!CurrentCanRun
<1>1. SInv => S!CurrentCanRun
  BY SMTT(60) DEF SInv
<1>2. S!Init => SInv
  BY ZenonT(60), InitSInv
<1> QED
  BY <1>1, <1>2, NextSInv, PTL DEF S!Spec
=============================================================================
