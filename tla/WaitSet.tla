------------------------------ MODULE WaitSet ------------------------------
(***************************************************************************)
(* What a kernel wait queue promises its users, without its linked list.   *)
(*                                                                         *)
(* A task that goes to sleep joins the set of waiting tasks.  One wake-up  *)
(* releases every task that waits at that moment, and nobody else; a       *)
(* released task returns from its sleep.  The components that sleep (the   *)
(* buffer cache, the request queue, pipes) are modelled against this       *)
(* specification; WaitQueue shows that sleep_on and wake_up implement it.  *)
(***************************************************************************)
CONSTANT Task

VARIABLES waiting,  \* tasks asleep that no wake-up has released
          released  \* tasks a wake-up released that have not returned yet

vars == <<waiting, released>>

Init == waiting = {} /\ released = {}

Sleep(t) ==
    /\ t \notin waiting \cup released
    /\ waiting' = waiting \cup {t}
    /\ UNCHANGED released

Wake ==
    /\ released' = released \cup waiting
    /\ waiting' = {}

Return(t) ==
    /\ t \in released
    /\ released' = released \ {t}
    /\ UNCHANGED waiting

Next == Wake \/ \E t \in Task : Sleep(t) \/ Return(t)

\* A released task returns, whatever the others do.
Spec == Init /\ [][Next]_vars /\ \A t \in Task : WF_vars(Return(t))
=============================================================================
