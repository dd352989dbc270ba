----------------------------- MODULE MCDevices -----------------------------
(***************************************************************************)
(* The block devices, with what must eventually happen.  Side by side, one *)
(* of them chosen by which: the buffer cache of two processes with a       *)
(* single buffer, the request lists of two drivers that share three slots, *)
(* the hard disk driver, and the floppy driver for two drives that work or *)
(* one that does not always.                                               *)
(***************************************************************************)
EXTENDS HardDisk

CONSTANTS Proc, NB, Device, Number, NR_REQUEST, Value, Ops, Errors,   \* BufferCache
          Major, Sector, Drive, Track                                 \* RequestQueue, Floppy

VARIABLES
    which,
    block, b_count, b_lock, b_dirt, b_uptodate, data, free_list,          \* BufferCache
    request, disk, cpu, pc, wait, op, want, bh, keep, dev, i, rw, latest, failed,
    rq_dev, cmd, sector, next, current_request,                           \* RequestQueue
    f, head, change, requests                                             \* Floppy

Cache == INSTANCE BufferCache
Lists == INSTANCE RequestQueue WITH NR_REQUEST <- 3, dev <- rq_dev
Fd == INSTANCE Floppy WITH MAX_ERRORS <- 2, MaxQueue <- 2, MaxRequests <- 2, MaxGlitches <- 0
BadFd == INSTANCE Floppy WITH MAX_ERRORS <- 2, MaxQueue <- 2, MaxRequests <- 2, MaxGlitches <- 1,
                              Drive <- {0}

cacheVars == <<block, b_count, b_lock, b_dirt, b_uptodate, data, free_list,
               request, disk, cpu, pc, wait, op, want, bh, keep, dev, i, rw, latest, failed>>
listVars == <<rq_dev, cmd, sector, next, current_request>>
fdVars == <<f, head, change, requests>>
mcvars == <<which, cacheVars, listVars, vars, fdVars>>

MCInit ==
    /\ which \in {"cache", "lists", "hd", "fd", "bad_fd"}
    /\ Cache!Init /\ Lists!Init /\ Init
    /\ IF which = "fd" THEN Fd!Init ELSE BadFd!Init

Only(c) ==
    /\ which = c
    /\ UNCHANGED which
    /\ c # "cache" => UNCHANGED cacheVars
    /\ c # "lists" => UNCHANGED listVars
    /\ c # "hd" => UNCHANGED vars
    /\ c \notin {"fd", "bad_fd"} => UNCHANGED fdVars

MCNext ==
    \/ Only("cache") /\ Cache!Next
    \/ Only("lists") /\ Lists!Next
    \/ Only("hd") /\ Next
    \/ Only("fd") /\ Fd!Next
    \/ Only("bad_fd") /\ BadFd!Next

\* What is fair, numbered so that each number stands for one action of each part.
Acts(n) ==
    \/ /\ Only("cache")
       /\ \/ n \in Proc /\ Cache!Step(n)
          \/ n - 2 \in Cache!Slots /\ Cache!Disk(n - 2)
    \/ Only("lists") /\ \E m \in Major : m = n /\ Lists!EndRequest(m)
    \/ /\ Only("hd")
       /\ \/ n = 1 /\ DoHdRequest
          \/ n = 2 /\ Interrupt
    \/ /\ Only("fd") /\ ~f.fault
       /\ \/ n = 1 /\ Fd!Hardware
          \/ n = 2 /\ Fd!Change
    \/ /\ Only("bad_fd") /\ ~f.fault
       /\ \/ n = 1 /\ BadFd!Hardware
          \/ n = 2 /\ BadFd!Change

MCSpec == MCInit /\ [][MCNext]_mcvars /\ \A n \in 1..4 : WF_mcvars(Acts(n))

\* At most two sweeps are queued: the order in which add_request links the
\* requests (ll_rw_blk.c:64-86) descends once at most.
Elevator == Lists!Elevator

\* Every request is served, however many others come in and overtake it
\* (ll_rw_blk.c:78-84).
Served == Lists!Served

\* As long as somebody is in the kernel, calls of the buffer cache go on
\* returning (BufferCache).
CallsComplete == Cache!CallsComplete

\* However often the hardware fails, no request is retried for ever: each ends,
\* well or not (hd.c:238-245, floppy.c:213-222).
RequestsEnd == CurrentEnds /\ Fd!RequestsEnd
=============================================================================
