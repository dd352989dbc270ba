---------------------------- MODULE RequestQueue ----------------------------
(***************************************************************************)
(* The lists of requests of kernel/blk_drv/ll_rw_blk.c: make_request finds *)
(* an empty slot, add_request links it into the list of its driver, in the *)
(* order of an elevator, and end_request (blk.h) takes the first one out.  *)
(* All drivers share the slots.  A freed slot keeps its next pointer.      *)
(*                                                                         *)
(* The drive and the sector of a request are one position.  The sector of  *)
(* the first request moves on while it is served, by less than a block:    *)
(* its place among the others, all about other blocks, does not change.    *)
(***************************************************************************)
EXTENDS Naturals, FiniteSets

CONSTANTS NR_REQUEST,  \* slots
          Major,       \* drivers
          Sector,      \* positions a request may be about
          None         \* NULL, and the dev of an empty slot

Slots == 1..NR_REQUEST
WriteSlots == 1..((NR_REQUEST * 2) \div 3)
READ == 0
WRITE == 1
READA == 2
WRITEA == 3

VARIABLES dev, cmd, sector, next,  \* struct request
          current_request          \* of each driver

vars == <<dev, cmd, sector, next, current_request>>

Init ==
    /\ dev = [r \in Slots |-> None]
    /\ cmd = [r \in Slots |-> READ]
    /\ sector = [r \in Slots |-> 0]
    /\ next = [r \in Slots |-> None]
    /\ current_request = [m \in Major |-> None]
-----------------------------------------------------------------------------
\* IN_ORDER(s1, s2), for requests given as <<cmd, sector>>.
IN_ORDER(a, b) == a[1] < b[1] \/ (a[1] = b[1] /\ a[2] < b[2])

Req(r) == <<cmd[r], sector[r]>>

\* The list of m, one slot after the other; None from its end on.
List(m) ==
    LET walk[n \in Nat] ==
            IF n = 0 THEN current_request[m]
            ELSE IF walk[n - 1] = None THEN None ELSE next[walk[n - 1]]
    IN  [n \in 0..NR_REQUEST |-> walk[n]]

\* Mutant: no second sweep.
StopsInSweep(tmp, req) ==
    \/ next[tmp] = None
    \/ IN_ORDER(Req(tmp), req) /\ IN_ORDER(req, Req(next[tmp]))

\* Mutant: the new request is always the next one.
StopsAtOnce(tmp, req) == TRUE

\* Where the loop of add_request stops.
Stops(tmp, req) ==
    \/ next[tmp] = None
    \/ /\ IN_ORDER(Req(tmp), req) \/ ~IN_ORDER(Req(tmp), Req(next[tmp]))
       /\ IN_ORDER(req, Req(next[tmp]))

\* The slot behind which req goes.
Before(m, req) ==
    LET stops == {n \in 0..NR_REQUEST : List(m)[n] # None /\ Stops(List(m)[n], req)}
    IN  {List(m)[n] : n \in {k \in stops : \A l \in stops : k <= l}}

\* r comes between tmp and what was behind it.
Linked(r, tmp) == [next EXCEPT ![r] = next[tmp], ![tmp] = r]

add_request(m, r, req) ==
    IF current_request[m] = None
    THEN /\ current_request' = [current_request EXCEPT ![m] = r]
         /\ next' = [next EXCEPT ![r] = None]
    ELSE \E tmp \in Before(m, req) :
             /\ next' = Linked(r, tmp)
             /\ UNCHANGED current_request

\* READA and WRITEA are a READ and a WRITE that do not wait.
Command(rw) == IF rw = READA THEN READ ELSE IF rw = WRITEA THEN WRITE ELSE rw

\* The slot make_request takes: the last empty one that the command may use.
Empty(c) ==
    LET may == {r \in (IF c = READ THEN Slots ELSE WriteSlots) : dev[r] = None}
    IN  {r \in may : \A s \in may : s <= r}

\* make_request with a slot.  The buffer is locked, so that no other request is
\* about the same block.  Without a slot the caller sleeps and tries again, or
\* gives up a READA or WRITEA.
MakeRequest(m, rw, s) ==
    /\ \A q \in Slots : dev[q] = m => sector[q] # s
    /\ LET c == Command(rw) IN
       \E r \in Empty(c) :
        /\ dev' = [dev EXCEPT ![r] = m]
        /\ cmd' = [cmd EXCEPT ![r] = c]
        /\ sector' = [sector EXCEPT ![r] = s]
        /\ add_request(m, r, <<c, s>>)

\* end_request
EndRequest(m) ==
    LET cur == current_request[m] IN
    /\ cur # None
    /\ dev' = [dev EXCEPT ![cur] = None]
    /\ current_request' = [current_request EXCEPT ![m] = next[cur]]
    /\ UNCHANGED <<cmd, sector, next>>

Next ==
    \E m \in Major :
        \/ \E rw \in {READ, WRITE, READA, WRITEA}, s \in Sector : MakeRequest(m, rw, s)
        \/ EndRequest(m)

\* Every driver goes on with its list.
Spec == Init /\ [][Next]_vars /\ \A m \in Major : WF_vars(EndRequest(m))
-----------------------------------------------------------------------------
\* At most two sweeps are queued: the order of a list descends once at most.
Elevator ==
    \A m \in Major :
        Cardinality({n \in 0..(NR_REQUEST - 1) :
            /\ List(m)[n] # None /\ List(m)[n + 1] # None
            /\ IN_ORDER(Req(List(m)[n + 1]), Req(List(m)[n]))}) <= 1

\* Every request is served, however many others come in and overtake it.
Served == \A r \in Slots : dev[r] # None ~> dev[r] = None
=============================================================================
